---- MODULE Spec2Model ----
(***************************************************************************)
(* Model of the query workflow of hierarchical_multi_agent_support:        *)
(* WorkflowOrchestrator (orchestrator.py) driving the InputValidator, the  *)
(* SupervisorAgent (router and evaluator) and the IT / Finance specialist  *)
(* agents (agents.py).                                                     *)
(*                                                                         *)
(* Conventions                                                             *)
(*  - a Python Optional is a sequence of length 0 (None) or 1 (a value);   *)
(*  - a Python str that the code assembles from parts is the sequence of   *)
(*    its parts, so that "a in b" is containment of one sequence in        *)
(*    another and len(s) = 0 is the empty string;                          *)
(*  - a Python dict is a function from its keys (strings) to its values;   *)
(*  - the collaborators of the orchestrator are injected objects; every    *)
(*    node guards its call with "except Exception", so a collaborator      *)
(*    call has three kinds of outcome: a successful result, a failure      *)
(*    result, or a raised exception.  The logger is assumed not to raise.  *)
(***************************************************************************)
EXTENDS Integers, Sequences, FiniteSets, TLC

\* ------------------------------------------------------------------------
\* Optional values, strings and dicts
\* ------------------------------------------------------------------------

None == <<>>

Some(x) == <<x>>

IsSet(o) == o # None

Val(o) == o[1]

\* bool(s) of an Optional[str]: None and "" are both falsy
Truthy(o) == IsSet(o) /\ Val(o) # <<>>

\* Python "sub in s" on strings held as sequences of parts
Contains(s, sub) ==
    \E i \in 1..(Len(s) + 1) :
        /\ i + Len(sub) - 1 <= Len(s)
        /\ SubSeq(s, i, i + Len(sub) - 1) = sub

EmptyDict == <<>>

\* dict.get(k, default)
Get(md, k, default) == IF k \in DOMAIN md THEN md[k] ELSE default

\* ------------------------------------------------------------------------
\* Inputs of one run
\* ------------------------------------------------------------------------

\* raw queries handed to process_query
Queries == {"  reset my password "}

\* what InputValidator._sanitize_input makes of a raw query (whitespace
\* collapsed and trimmed)
Sanitized(q) == "reset my password"

\* the error messages InputValidator.validate_query can return
ValidatorErrors ==
    { <<"Query cannot be empty">>,
      <<"Query must be at least ", "5", " characters long">>,
      <<"Query cannot exceed ", "1000", " characters">>,
      <<"Query contains only invalid characters">>,
      <<"Query contains potentially harmful content">>,
      <<"Failed to validate query">> }

\* outcomes of validator.validate_query as seen by the orchestrator
ValidatorOutcomes ==
    {[kind |-> "valid", msg |-> <<>>]}
      \cup {[kind |-> "invalid", msg |-> m] : m \in ValidatorErrors}
      \cup {[kind |-> "raise", msg |-> <<>>]}

\* outcomes of the router's LLM call: the label parsed from the text, an
\* LLMError, or a response whose content cannot be parsed (except Exception)
RouterLLMOutcomes == {"IT", "Finance", "Both", "Unclear", "llm_error", "unexpected"}

\* outcomes of supervisor.process_query as seen by the orchestrator
RouterOutcomes == RouterLLMOutcomes \cup {"raise"}

\* outcomes of a tool call inside a specialist
ToolOutcomes == {"ok", "fail", "raise"}

\* outcomes of the LLM call of a specialist
AgentLLMOutcomes == {"ok", "llm_error", "unexpected"}

\* outcomes of a specialist's process_query as seen by the orchestrator
SpecialistOutcomes ==
    {[kind |-> "return", rag |-> r, web |-> w, llm |-> l] :
        r \in ToolOutcomes, w \in ToolOutcomes, l \in AgentLLMOutcomes}
      \cup {[kind |-> "raise", rag |-> "ok", web |-> "ok", llm |-> "ok"]}

\* outcomes of supervisor.evaluate_response as seen by the orchestrator
EvaluatorOutcomes == {"ok", "llm_error", "unexpected", "raise"}

\* str(e) of an exception that escapes workflow.ainvoke
ExceptionTexts == { <<"Workflow execution failed">>, <<>> }

NoDecision == "None"

\* ------------------------------------------------------------------------
\* agents.py
\* ------------------------------------------------------------------------

\* BaseAgent._create_response / AgentResponse
create_response(name, success, message, decision, tool_calls, metadata) ==
    [success |-> success, message |-> message, agent_name |-> name,
     routing_decision |-> decision, tool_calls |-> tool_calls,
     metadata |-> metadata]

ClarificationMessage ==
    <<"I can only help with IT or Finance related queries. Please rephrase your question to be more specific about the domain.">>

RoutingLLMErrorMessage ==
    <<"I'm experiencing technical difficulties with the routing system. Please try again later.">>

RoutingUnexpectedMessage ==
    <<"I'm experiencing technical difficulties. Please try again later.">>

\* SupervisorAgent.process_query with the Unclear branch returning success
SupervisorAgent_process_query_UnclearSucceeds(query, o) ==
    IF o = "llm_error"
    THEN create_response("Supervisor", FALSE, RoutingLLMErrorMessage, NoDecision, <<>>,
                         [error_type |-> "LLM_ERROR", error_code |-> "LLM_CALL_ERROR"])
    ELSE IF o = "unexpected"
    THEN create_response("Supervisor", FALSE, RoutingUnexpectedMessage, NoDecision, <<>>,
                         [error_type |-> "UNEXPECTED_ERROR"])
    ELSE create_response("Supervisor", TRUE, <<"Query routed to ", o, " specialist">>, o, <<>>,
                         [original_query |-> query])

\* SupervisorAgent.process_query: o is the outcome of the LLM call and of
\* the parse of its text
SupervisorAgent_process_query(query, o) ==
    IF o = "llm_error"
    THEN create_response("Supervisor", FALSE, RoutingLLMErrorMessage, NoDecision, <<>>,
                         [error_type |-> "LLM_ERROR", error_code |-> "LLM_CALL_ERROR"])
    ELSE IF o = "unexpected"
    THEN create_response("Supervisor", FALSE, RoutingUnexpectedMessage, NoDecision, <<>>,
                         [error_type |-> "UNEXPECTED_ERROR"])
    ELSE IF o = "Unclear"
    THEN create_response("Supervisor", FALSE, ClarificationMessage, o, <<>>, EmptyDict)
    ELSE create_response("Supervisor", TRUE, <<"Query routed to ", o, " specialist">>, o, <<>>,
                         [original_query |-> query])

\* the tool_calls entry a specialist records for one tool call
ToolCallEntry(tool, o) ==
    [tool |-> tool,
     success |-> (o = "ok"),
     result |-> IF o = "ok" THEN "Found results"
                ELSE IF o = "fail" THEN "search failed"
                ELSE "Tool execution failed"]

\* the part of additional_context a tool call contributes
ToolContext(label, tool, o) == IF o = "ok" THEN <<label, tool, " data">> ELSE <<>>

SuccessfulTools(tool_calls) ==
    Cardinality({i \in 1..Len(tool_calls) : tool_calls[i].success})

\* the text the LLM returns to a specialist
LLMAnswer(name) == <<name, " answer">>

\* ITAgent.process_query / FinanceAgent.process_query giving up when a tool failed
SpecialistProcessQuery_FailsOnToolFailure(name, domain, docLabel, unexpectedMsg, query, rag, web, llm) ==
    LET tool_calls == <<ToolCallEntry("rag_search", rag), ToolCallEntry("web_search", web)>>
        additional_context ==
            ToolContext(docLabel, "rag_search", rag)
              \o ToolContext("External Resources:", "web_search", web)
    IN  IF rag # "ok" \/ web # "ok"
        THEN create_response(name, FALSE, unexpectedMsg, NoDecision, tool_calls,
                 [error_type |-> "TOOL_ERROR"])
        ELSE IF llm = "ok"
        THEN create_response(name, TRUE, LLMAnswer(name), NoDecision, tool_calls,
                 [domain |-> domain,
                  tools_used |-> Len(tool_calls),
                  successful_tools |-> SuccessfulTools(tool_calls),
                  context_length |-> Len(additional_context)])
        ELSE create_response(name, FALSE, unexpectedMsg, NoDecision, tool_calls,
                 [error_type |-> "UNEXPECTED_ERROR"])

\* the body shared by ITAgent.process_query and FinanceAgent.process_query
SpecialistProcessQuery(name, domain, docLabel, unexpectedMsg, query, rag, web, llm) ==
    LET tool_calls == <<ToolCallEntry("rag_search", rag), ToolCallEntry("web_search", web)>>
        additional_context ==
            ToolContext(docLabel, "rag_search", rag)
              \o ToolContext("External Resources:", "web_search", web)
    IN  IF llm = "ok"
        THEN create_response(name, TRUE, LLMAnswer(name), NoDecision, tool_calls,
                 [domain |-> domain,
                  tools_used |-> Len(tool_calls),
                  successful_tools |-> SuccessfulTools(tool_calls),
                  context_length |-> Len(additional_context)])
        ELSE IF llm = "llm_error"
        THEN create_response(name, FALSE,
                 <<"I'm experiencing technical difficulties with generating the response. Please try again later.">>,
                 NoDecision, tool_calls,
                 [error_type |-> "LLM_ERROR", error_code |-> "LLM_CALL_ERROR"])
        ELSE create_response(name, FALSE, unexpectedMsg, NoDecision, tool_calls,
                 [error_type |-> "UNEXPECTED_ERROR"])

ITAgent_process_query(query, o) ==
    SpecialistProcessQuery("IT Agent", "IT", "Internal IT Documentation:",
        <<"I'm experiencing technical difficulties with processing your IT query. Please try again later.">>,
        query, o.rag, o.web, o.llm)

FinanceAgent_process_query(query, o) ==
    SpecialistProcessQuery("Finance Agent", "Finance", "Internal Finance Documents:",
        <<"I'm experiencing technical difficulties with processing your finance query. Please try again later.">>,
        query, o.rag, o.web, o.llm)

\* all_tool_calls: the tool_calls of the responses, concatenated in order
RECURSIVE AllToolCalls(_)
AllToolCalls(responses) ==
    IF responses = <<>> THEN <<>>
    ELSE Head(responses).tool_calls \o AllToolCalls(Tail(responses))

\* "\n\n".join(f"**{r.agent_name}:** {r.message}" for r in responses)
RECURSIVE JoinLabelled(_)
JoinLabelled(responses) ==
    IF responses = <<>> THEN <<>>
    ELSE LET r == Head(responses)
             section == <<"**", r.agent_name, ":** ">> \o r.message
         IN  IF Len(responses) = 1 THEN section
             ELSE section \o <<"\n\n">> \o JoinLabelled(Tail(responses))

\* str(error) of the exception the evaluator caught
EvaluationErrorText(o) ==
    IF o = "llm_error" THEN "LLM call failed for Supervisor" ELSE "unexpected error"

\* SupervisorAgent._fallback_to_original keeping only the first response when
\* it combines several
fallback_to_original_FirstOnly(specialist_responses, routing_decision, o) ==
    IF Len(specialist_responses) = 1
    THEN LET response == specialist_responses[1]
         IN  [response EXCEPT !.metadata =
                 [k \in (DOMAIN response.metadata) \cup {"evaluation_failed", "evaluation_error"} |->
                     IF k = "evaluation_failed" THEN TRUE
                     ELSE IF k = "evaluation_error" THEN EvaluationErrorText(o)
                     ELSE response.metadata[k]]]
    ELSE create_response("Supervisor", TRUE, JoinLabelled(<<specialist_responses[1]>>), NoDecision,
             AllToolCalls(specialist_responses),
             [evaluated |-> FALSE,
              evaluation_failed |-> TRUE,
              evaluation_error |-> EvaluationErrorText(o),
              routing_decision |-> routing_decision])

\* SupervisorAgent._fallback_to_original
fallback_to_original(specialist_responses, routing_decision, o) ==
    IF Len(specialist_responses) = 1
    THEN LET response == specialist_responses[1]
         IN  [response EXCEPT !.metadata =
                 [k \in (DOMAIN response.metadata) \cup {"evaluation_failed", "evaluation_error"} |->
                     IF k = "evaluation_failed" THEN TRUE
                     ELSE IF k = "evaluation_error" THEN EvaluationErrorText(o)
                     ELSE response.metadata[k]]]
    ELSE create_response("Supervisor", TRUE, JoinLabelled(specialist_responses), NoDecision,
             AllToolCalls(specialist_responses),
             [evaluated |-> FALSE,
              evaluation_failed |-> TRUE,
              evaluation_error |-> EvaluationErrorText(o),
              routing_decision |-> routing_decision])

\* the text the LLM returns to the evaluator
RefinedAnswer == <<"refined answer">>

\* SupervisorAgent.evaluate_response keeping the tool_calls of the first
\* specialist only
evaluate_response_FirstToolCallsOnly(original_query, specialist_responses, routing_decision, o) ==
    IF o = "ok"
    THEN create_response("Supervisor", TRUE, RefinedAnswer, NoDecision,
             specialist_responses[1].tool_calls,
             [evaluated |-> TRUE,
              original_specialists |->
                  [i \in 1..Len(specialist_responses) |-> specialist_responses[i].agent_name],
              routing_decision |-> routing_decision,
              total_tools_used |-> Len(specialist_responses[1].tool_calls),
              evaluation_success |-> TRUE])
    ELSE fallback_to_original(specialist_responses, routing_decision, o)

\* SupervisorAgent.evaluate_response: o is the outcome of the LLM call
evaluate_response(original_query, specialist_responses, routing_decision, o) ==
    IF o = "ok"
    THEN create_response("Supervisor", TRUE, RefinedAnswer, NoDecision,
             AllToolCalls(specialist_responses),
             [evaluated |-> TRUE,
              original_specialists |->
                  [i \in 1..Len(specialist_responses) |-> specialist_responses[i].agent_name],
              routing_decision |-> routing_decision,
              total_tools_used |-> Len(AllToolCalls(specialist_responses)),
              evaluation_success |-> TRUE])
    ELSE fallback_to_original(specialist_responses, routing_decision, o)

\* ------------------------------------------------------------------------
\* orchestrator.py: the state of one run of WorkflowOrchestrator.process_query
\* ------------------------------------------------------------------------

VARIABLES
    pc,                   \* position of the run: START, a node, END, returned
    both_pc,              \* position inside _both_specialists
    raw_query,            \* the argument of process_query
    query,                \* SystemState.query
    validation_result,    \* SystemState.validation_result (Optional)
    supervisor_response,  \* SystemState.supervisor_response (Optional)
    specialist_response,  \* SystemState.specialist_response (Optional)
    individual_responses, \* SystemState.individual_responses (Optional list)
    final_response,       \* SystemState.final_response
    error,                \* SystemState.error (Optional str)
    metadata,             \* SystemState.metadata
    it_response,          \* local of _both_specialists (Optional)
    result,               \* what process_query returned (Optional)
    visited,              \* history: the nodes entered, in order
    calls,                \* history: the collaborators invoked, in order
    raised,               \* history: where an exception was raised, in order
    eval_args,            \* history: arguments of evaluate_response (Optional)
    eval_outcome          \* history: outcome of evaluate_response (Optional)

state_vars ==
    <<query, validation_result, supervisor_response, specialist_response,
      individual_responses, final_response, error, metadata>>

\* the state of one call of a specialist's process_query, followed step by
\* step (agents.py)
VARIABLES
    a_agent,        \* "IT Agent" or "Finance Agent"; "off" outside such a call
    a_pc,           \* position inside process_query
    a_tool_calls,   \* the local tool_calls
    a_context,      \* the local additional_context
    a_invocations,  \* history: the tools and the LLM invoked, in order
    a_outcomes,     \* history: the outcome of each invocation, in order
    a_response      \* the AgentResponse returned (Optional)

agent_vars ==
    <<a_agent, a_pc, a_tool_calls, a_context, a_invocations, a_outcomes, a_response>>

\* the state of one call of SupervisorAgent.process_query on one LLM outcome
VARIABLES
    r_llm,          \* the outcome of the LLM call: a text, or an error
    r_pc,           \* "call" before, "done" after; "off" outside such a call
    r_response      \* the AgentResponse returned (Optional)

routing_vars == <<r_llm, r_pc, r_response>>

\* the state of one call of InputValidator.validate_query
VARIABLES
    v_query,        \* the raw query, a sequence of characters
    v_pc,           \* "call" before, "done" after; "off" outside such a call
    v_result        \* the ValidationResult returned (Optional)

validation_vars == <<v_query, v_pc, v_result>>

\* the state of sanitizing one text twice with InputValidator._sanitize_input
VARIABLES
    s_query,        \* the text given, a sequence of characters
    s_once,         \* _sanitize_input(s_query), once computed (Optional)
    s_twice         \* _sanitize_input of s_once, once computed (Optional)

sanitize_vars == <<s_query, s_once, s_twice>>

\* the state of one RAGDocumentSearch engine, its files, and the coroutines
\* that use it (rag_search.py)
VARIABLES
    cache_file,           \* per domain: the cache artifact on disk (Optional)
    docs_dir,             \* per domain: the source files, each the chunks it yields
    vector_store,         \* per domain: the rows of the index (Optional)
    doc_chunks,           \* per domain: finance_chunks / it_chunks
    initialized,          \* per domain: _finance_initialized / _it_initialized
    initialization_lock,  \* the coroutine holding _initialization_lock (Optional)
    t_pc,                 \* per coroutine: its position
    t_arg,                \* per coroutine: the domain argument of its call
    t_local,              \* per coroutine: its local variables
    t_result,             \* per coroutine: what search_documents returned (Optional)
    rag_log               \* history, per domain: the loads and builds, in order

rag_vars ==
    <<cache_file, docs_dir, vector_store, doc_chunks, initialized,
      initialization_lock, t_pc, t_arg, t_local, t_result, rag_log>>

\* the state of building an index in one engine, saving it, and loading the
\* cache file into a second, fresh engine (rag_search.py)
VARIABLES
    rt_pc,          \* "start", "built", "saved", "loaded" or "searched"
    rt_domain,      \* the domain whose index is built
    rt_docs,        \* the chunks the source files of the domain yield
    rt_built,       \* the engine that builds: its index (Optional) and chunks
    rt_file,        \* per domain: the cache artifact on disk (Optional)
    rt_loaded,      \* the fresh engine: its index (Optional) and chunks
    rt_results      \* what search_documents returned in each engine (Optional)

roundtrip_vars ==
    <<rt_pc, rt_domain, rt_docs, rt_built, rt_file, rt_loaded, rt_results>>

\* the state of one call of RAGDocumentSearch.get_context_for_query
VARIABLES
    ctx_pc,          \* "call", "searched" or "done"
    ctx_budget,      \* max_context_length
    ctx_top_k,       \* the top_k passed to search_documents (Optional)
    ctx_candidates,  \* relevant_chunks, what search_documents returned
    ctx_context      \* the context returned (Optional)

context_vars == <<ctx_pc, ctx_budget, ctx_top_k, ctx_candidates, ctx_context>>

\* one call of _generate_embeddings followed on its own, and its use by a
\* build or a search: the Bedrock client, the purpose of the call, the texts,
\* the position of the text being embedded, the embeddings of the current
\* batch, the texts whose batch fell back to dummy embeddings, the embeddings
\* returned so far and the outcome of the build or search
VARIABLES emb_pc, emb_client, emb_purpose, emb_texts, emb_i, emb_batch, emb_failed,
          emb_embeddings, emb_outcome

embed_vars == <<emb_pc, emb_client, emb_purpose, emb_texts, emb_i, emb_batch, emb_failed,
                emb_embeddings, emb_outcome>>

aux_vars == <<agent_vars, routing_vars, validation_vars, sanitize_vars, rag_vars, roundtrip_vars, context_vars, embed_vars>>

vars ==
    <<pc, both_pc, raw_query, query, validation_result, supervisor_response,
      specialist_response, individual_responses, final_response, error,
      metadata, it_response, result, visited, calls, raised, eval_args,
      eval_outcome, aux_vars>>

\* no specialist call is being followed
AgentIdle ==
    /\ a_agent = "off"
    /\ a_pc = "off"
    /\ a_tool_calls = <<>>
    /\ a_context = <<>>
    /\ a_invocations = <<>>
    /\ a_outcomes = <<>>
    /\ a_response = None

\* no routing call is being followed
RoutingIdle ==
    /\ r_llm = None
    /\ r_pc = "off"
    /\ r_response = None

\* no validation call is being followed
ValidationIdle ==
    /\ v_query = <<>>
    /\ v_pc = "off"
    /\ v_result = None

Nodes ==
    {"validate_input", "supervisor_route", "it_specialist", "finance_specialist",
     "both_specialists", "format_response", "handle_error"}

SpecialistNodes == {"it_specialist", "finance_specialist", "both_specialists"}

\* _build_workflow: the conditional edges out of validate_input
ValidationEdges == [valid |-> "supervisor_route", invalid |-> "handle_error"]

\* _build_workflow with the router's "error" label wired to format_response
SupervisorEdges_ErrorToFormat ==
    [IT |-> "it_specialist", Finance |-> "finance_specialist",
     Both |-> "both_specialists", error |-> "format_response"]

\* _build_workflow: the conditional edges out of supervisor_route
SupervisorEdges ==
    [IT |-> "it_specialist", Finance |-> "finance_specialist",
     Both |-> "both_specialists", error |-> "handle_error"]

\* _build_workflow: the unconditional edges
PlainEdges ==
    [it_specialist |-> "format_response", finance_specialist |-> "format_response",
     both_specialists |-> "format_response", format_response |-> "END",
     handle_error |-> "END"]

\* _validation_router taking a missing validation_result for a valid one
validation_router_MissingIsValid(vr) ==
    IF ~IsSet(vr) \/ Val(vr).is_valid THEN "valid" ELSE "invalid"

\* _validation_router
validation_router(vr) ==
    IF IsSet(vr) /\ Val(vr).is_valid THEN "valid" ELSE "invalid"

\* _supervisor_router
supervisor_router(sr) ==
    IF IsSet(sr) /\ Val(sr).success
    THEN IF Val(sr).routing_decision \in {"IT", "Finance", "Both"}
         THEN Val(sr).routing_decision
         ELSE "error"
    ELSE "error"

\* the graph runtime moves the run to the next node (or to END)
Goto(node) ==
    /\ pc' = node
    /\ visited' = IF node \in Nodes THEN Append(visited, node) ELSE visited

\* no text is being sanitized
SanitizeIdle ==
    /\ s_query = <<>>
    /\ s_once = None
    /\ s_twice = None

\* no engine is being followed
RagIdle ==
    /\ cache_file = <<>>
    /\ docs_dir = <<>>
    /\ vector_store = <<>>
    /\ doc_chunks = <<>>
    /\ initialized = <<>>
    /\ initialization_lock = None
    /\ t_pc = <<>>
    /\ t_arg = <<>>
    /\ t_local = <<>>
    /\ t_result = <<>>
    /\ rag_log = <<>>

\* no round trip is being followed
RoundTripIdle ==
    /\ rt_pc = ""
    /\ rt_domain = ""
    /\ rt_docs = <<>>
    /\ rt_built = <<>>
    /\ rt_file = <<>>
    /\ rt_loaded = <<>>
    /\ rt_results = None

\* no context call is being followed
ContextIdle ==
    /\ ctx_pc = "off"
    /\ ctx_budget = 0
    /\ ctx_top_k = None
    /\ ctx_candidates = <<>>
    /\ ctx_context = None

\* no embedding call is being followed
EmbedIdle ==
    /\ emb_pc = "off"
    /\ emb_client = FALSE
    /\ emb_purpose = "none"
    /\ emb_texts = <<>>
    /\ emb_i = 0
    /\ emb_batch = <<>>
    /\ emb_failed = {}
    /\ emb_embeddings = <<>>
    /\ emb_outcome = None

\* the orchestrator after construction, before process_query is called
WorkflowInit ==
    /\ pc = "START"
    /\ both_pc = "idle"
    /\ raw_query \in Queries
    /\ query = ""
    /\ validation_result = None
    /\ supervisor_response = None
    /\ specialist_response = None
    /\ individual_responses = None
    /\ final_response = <<>>
    /\ error = None
    /\ metadata = EmptyDict
    /\ it_response = None
    /\ result = None
    /\ visited = <<>>
    /\ calls = <<>>
    /\ raised = <<>>
    /\ eval_args = None
    /\ eval_outcome = None

Init ==
    /\ WorkflowInit
    /\ AgentIdle
    /\ RoutingIdle
    /\ ValidationIdle
    /\ SanitizeIdle
    /\ RagIdle
    /\ RoundTripIdle
    /\ ContextIdle
    /\ EmbedIdle

\* process_query: build initial_state and start the graph at validate_input
start_workflow ==
    /\ pc = "START"
    /\ query' = raw_query
    /\ validation_result' = None
    /\ supervisor_response' = None
    /\ specialist_response' = None
    /\ individual_responses' = None
    /\ final_response' = <<>>
    /\ metadata' = EmptyDict
    /\ error' = None
    /\ Goto("validate_input")
    /\ UNCHANGED <<both_pc, raw_query, it_response, result, calls, raised,
                   eval_args, eval_outcome>>
    /\ UNCHANGED aux_vars

\* _validate_input followed by the conditional edge _validation_router
validate_input(o) ==
    /\ pc = "validate_input"
    /\ calls' = Append(calls, "validator")
    /\ IF o.kind = "raise"
       THEN /\ error' = Some(<<"Failed to validate input">>)
            /\ raised' = Append(raised, "validator")
            /\ UNCHANGED <<validation_result, query>>
       ELSE /\ validation_result' =
                 Some([is_valid |-> (o.kind = "valid"),
                       error_message |-> IF o.kind = "valid" THEN None ELSE Some(o.msg),
                       sanitized_input |-> IF o.kind = "valid" THEN Some(Sanitized(query)) ELSE None])
            /\ IF o.kind = "valid"
               THEN /\ query' = Sanitized(query)
                    /\ UNCHANGED error
               ELSE /\ error' = Some(o.msg)
                    /\ UNCHANGED query
            /\ UNCHANGED raised
    /\ Goto(ValidationEdges[validation_router(validation_result')])
    /\ UNCHANGED <<both_pc, raw_query, supervisor_response, specialist_response,
                   individual_responses, final_response, metadata, it_response,
                   result, eval_args, eval_outcome>>
    /\ UNCHANGED aux_vars

\* _supervisor_route followed by the conditional edge _supervisor_router
supervisor_route(o) ==
    /\ pc = "supervisor_route"
    /\ calls' = Append(calls, "router")
    /\ IF o = "raise"
       THEN /\ error' = Some(<<"Failed to route query">>)
            /\ raised' = Append(raised, "router")
            /\ UNCHANGED supervisor_response
       ELSE LET supervisor_resp == SupervisorAgent_process_query(query, o)
            IN  /\ supervisor_response' = Some(supervisor_resp)
                /\ error' = IF ~supervisor_resp.success
                            THEN Some(supervisor_resp.message) ELSE error
                /\ UNCHANGED raised
    /\ Goto(SupervisorEdges[supervisor_router(supervisor_response')])
    /\ UNCHANGED <<both_pc, raw_query, query, validation_result, specialist_response,
                   individual_responses, final_response, metadata, it_response,
                   result, eval_args, eval_outcome>>
    /\ UNCHANGED aux_vars

\* _it_specialist followed by the edge to format_response
it_specialist(o) ==
    /\ pc = "it_specialist"
    /\ calls' = Append(calls, "it_agent")
    /\ IF o.kind = "raise"
       THEN /\ error' = Some(<<"Failed to process IT query">>)
            /\ raised' = Append(raised, "it_agent")
            /\ UNCHANGED specialist_response
       ELSE LET it_resp == ITAgent_process_query(query, o)
            IN  /\ specialist_response' = Some(it_resp)
                /\ error' = IF ~it_resp.success THEN Some(it_resp.message) ELSE error
                /\ UNCHANGED raised
    /\ Goto(PlainEdges["it_specialist"])
    /\ UNCHANGED <<both_pc, raw_query, query, validation_result, supervisor_response,
                   individual_responses, final_response, metadata, it_response,
                   result, eval_args, eval_outcome>>
    /\ UNCHANGED aux_vars

\* _finance_specialist followed by the edge to format_response
finance_specialist(o) ==
    /\ pc = "finance_specialist"
    /\ calls' = Append(calls, "finance_agent")
    /\ IF o.kind = "raise"
       THEN /\ error' = Some(<<"Failed to process Finance query">>)
            /\ raised' = Append(raised, "finance_agent")
            /\ UNCHANGED specialist_response
       ELSE LET finance_resp == FinanceAgent_process_query(query, o)
            IN  /\ specialist_response' = Some(finance_resp)
                /\ error' = IF ~finance_resp.success THEN Some(finance_resp.message) ELSE error
                /\ UNCHANGED raised
    /\ Goto(PlainEdges["finance_specialist"])
    /\ UNCHANGED <<both_pc, raw_query, query, validation_result, supervisor_response,
                   individual_responses, final_response, metadata, it_response,
                   result, eval_args, eval_outcome>>
    /\ UNCHANGED aux_vars

\* _both_specialists: combined_success with "or" for "and"
combined_success_Or(it_resp, finance_resp) == it_resp.success \/ finance_resp.success

\* _both_specialists: combined_success
combined_success(it_resp, finance_resp) == it_resp.success /\ finance_resp.success

\* _both_specialists: combined_message (the emoji of the headings left out)
combined_message(it_resp, finance_resp) ==
    IF combined_success(it_resp, finance_resp)
    THEN <<"## IT Support Response:\n">> \o it_resp.message
           \o <<"\n\n---\n\n## Finance Support Response:\n">> \o finance_resp.message
           \o <<"\n\n---\n\n**Note:** This response covers both IT and Finance aspects of your query.">>
    ELSE <<"I encountered some issues processing your multi-domain query:\n\n">>
           \o (IF it_resp.success
               THEN <<"## IT Support Response:\n">> \o it_resp.message \o <<"\n\n">>
               ELSE <<"## IT Support Issue:\n">> \o it_resp.message \o <<"\n\n">>)
           \o (IF finance_resp.success
               THEN <<"## Finance Support Response:\n">> \o finance_resp.message \o <<"\n\n">>
               ELSE <<"## Finance Support Issue:\n">> \o finance_resp.message \o <<"\n\n">>)

\* _both_specialists: the combined AgentResponse
combined_response(it_resp, finance_resp) ==
    LET combined_tool_calls == it_resp.tool_calls \o finance_resp.tool_calls
    IN  create_response("IT & Finance Agents",
            combined_success(it_resp, finance_resp),
            combined_message(it_resp, finance_resp),
            NoDecision,
            combined_tool_calls,
            [domains |-> <<"IT", "Finance">>,
             it_success |-> it_resp.success,
             finance_success |-> finance_resp.success,
             total_tools_used |-> Len(combined_tool_calls)])

\* _both_specialists: the except branch, followed by the edge to format_response
both_except(who) ==
    /\ error' = Some(<<"Failed to process query with both specialists">>)
    /\ raised' = Append(raised, who)
    /\ both_pc' = "idle"
    /\ Goto(PlainEdges["both_specialists"])

\* _both_specialists: it_agent.process_query is called
both_call_it ==
    /\ pc = "both_specialists"
    /\ both_pc = "idle"
    /\ both_pc' = "it_running"
    /\ calls' = Append(calls, "it_agent")
    /\ UNCHANGED <<pc, visited, raw_query, state_vars, it_response, result, raised,
                   eval_args, eval_outcome>>
    /\ UNCHANGED aux_vars

\* _both_specialists: the awaited it_agent.process_query completes
both_it_done(o) ==
    /\ pc = "both_specialists"
    /\ both_pc = "it_running"
    /\ IF o.kind = "raise"
       THEN /\ both_except("it_agent")
            /\ UNCHANGED it_response
       ELSE /\ it_response' = Some(ITAgent_process_query(query, o))
            /\ both_pc' = "it_done"
            /\ UNCHANGED <<pc, visited, error, raised>>
    /\ UNCHANGED <<raw_query, query, validation_result, supervisor_response,
                   specialist_response, individual_responses, final_response,
                   metadata, result, calls, eval_args, eval_outcome>>
    /\ UNCHANGED aux_vars

\* _both_specialists: finance_agent.process_query is called; the code awaits
\* the IT call before this line
both_call_finance ==
    /\ pc = "both_specialists"
    /\ both_pc = "it_done"
    /\ both_pc' = "finance_running"
    /\ calls' = Append(calls, "finance_agent")
    /\ UNCHANGED <<pc, visited, raw_query, state_vars, it_response, result, raised,
                   eval_args, eval_outcome>>
    /\ UNCHANGED aux_vars

\* _both_specialists: the awaited finance_agent.process_query completes, the
\* responses are combined, and the edge to format_response is taken
both_finance_done(o) ==
    /\ pc = "both_specialists"
    /\ both_pc = "finance_running"
    /\ IF o.kind = "raise"
       THEN /\ both_except("finance_agent")
            /\ UNCHANGED <<individual_responses, specialist_response>>
       ELSE LET it_resp == Val(it_response)
                finance_resp == FinanceAgent_process_query(query, o)
            IN  /\ individual_responses' = Some(<<it_resp, finance_resp>>)
                /\ specialist_response' = Some(combined_response(it_resp, finance_resp))
                /\ error' = IF ~combined_success(it_resp, finance_resp)
                            THEN Some(<<"Partial success in multi-domain processing">>)
                            ELSE error
                /\ both_pc' = "idle"
                /\ Goto(PlainEdges["both_specialists"])
                /\ UNCHANGED raised
    /\ UNCHANGED <<raw_query, query, validation_result, supervisor_response,
                   final_response, metadata, it_response, result, calls, eval_args, eval_outcome>>
    /\ UNCHANGED aux_vars

\* _format_response: the entries of processing_path for the routing decision
PathOfDecision(routing_decision) ==
    IF routing_decision = "Finance" THEN <<"Finance Agent">>
    ELSE IF routing_decision = "IT" THEN <<"IT Agent">>
    ELSE IF routing_decision = "Both" THEN <<"IT Agent", "Finance Agent">>
    ELSE <<>>

\* _format_response reading the evaluation flags with a default of True
EvaluatedMetadata_DefaultsTrue(evaluated_response, routing_decision) ==
    LET processing_path ==
            <<"Supervisor Agent (Routing)">> \o PathOfDecision(routing_decision)
              \o <<"Supervisor Agent (Evaluation)">>
    IN  [processing_path |-> processing_path,
         routing_decision |-> routing_decision,
         specialist_agents |-> Get(evaluated_response.metadata, "original_specialists", <<>>),
         tools_used |-> Len(evaluated_response.tool_calls),
         evaluated |-> Get(evaluated_response.metadata, "evaluated", TRUE),
         evaluation_success |-> Get(evaluated_response.metadata, "evaluation_success", TRUE),
         total_processing_steps |-> Len(processing_path)]

\* _format_response: the metadata of an evaluated response
EvaluatedMetadata(evaluated_response, routing_decision) ==
    LET processing_path ==
            <<"Supervisor Agent (Routing)">> \o PathOfDecision(routing_decision)
              \o <<"Supervisor Agent (Evaluation)">>
    IN  [processing_path |-> processing_path,
         routing_decision |-> routing_decision,
         specialist_agents |-> Get(evaluated_response.metadata, "original_specialists", <<>>),
         tools_used |-> Len(evaluated_response.tool_calls),
         evaluated |-> Get(evaluated_response.metadata, "evaluated", FALSE),
         evaluation_success |-> Get(evaluated_response.metadata, "evaluation_success", FALSE),
         total_processing_steps |-> Len(processing_path)]

\* _format_response with the failed branch closing the path with the
\* evaluation step
FailedMetadata_EndsWithEvaluation(supervisor_resp, err) ==
    LET processing_path ==
            <<"Supervisor Agent (Routing)">>
              \o (IF IsSet(supervisor_resp) /\ Val(supervisor_resp).routing_decision # NoDecision
                  THEN PathOfDecision(Val(supervisor_resp).routing_decision)
                  ELSE <<>>)
              \o <<"Supervisor Agent (Evaluation)">>
    IN  [processing_path |-> processing_path,
         routing_decision |-> "Unknown",
         specialist_agents |-> <<>>,
         tools_used |-> 0,
         evaluated |-> FALSE,
         evaluation_success |-> FALSE,
         total_processing_steps |-> Len(processing_path),
         error |-> err]

\* _format_response: the metadata when the specialist stage failed
FailedMetadata(supervisor_resp, err) ==
    LET processing_path ==
            <<"Supervisor Agent (Routing)">>
              \o (IF IsSet(supervisor_resp) /\ Val(supervisor_resp).routing_decision # NoDecision
                  THEN PathOfDecision(Val(supervisor_resp).routing_decision)
                  ELSE <<>>)
              \o <<"Error Handler">>
    IN  [processing_path |-> processing_path,
         routing_decision |-> "Unknown",
         specialist_agents |-> <<>>,
         tools_used |-> 0,
         evaluated |-> FALSE,
         evaluation_success |-> FALSE,
         total_processing_steps |-> Len(processing_path),
         error |-> err]

\* _format_response handing the combined response to the evaluator
format_response_evaluate_PassesCombined(o) ==
    /\ pc = "format_response"
    /\ IsSet(specialist_response) /\ Val(specialist_response).success
    /\ LET routing_decision ==
               IF IsSet(supervisor_response)
               THEN Val(supervisor_response).routing_decision ELSE "Unknown"
           unwrapped == FALSE
           specialist_responses ==
               IF unwrapped THEN Val(individual_responses) ELSE <<Val(specialist_response)>>
       IN  /\ calls' = Append(calls, "evaluator")
           /\ eval_args' = Some([original_query |-> query,
                                 specialist_responses |-> specialist_responses,
                                 routing_decision |-> routing_decision])
           /\ IF o = "raise"
              THEN /\ error' = Some(<<"Failed to format response">>)
                   /\ raised' = Append(raised, "evaluator")
                   /\ UNCHANGED <<final_response, metadata, specialist_response>>
              ELSE LET evaluated_response ==
                           evaluate_response(query, specialist_responses, routing_decision, o)
                   IN  /\ final_response' = evaluated_response.message
                       /\ metadata' = EvaluatedMetadata(evaluated_response, routing_decision)
                       \* the one-response fallback stamps the metadata of the
                       \* response object it was given, which is state.specialist_response
                       /\ specialist_response' =
                              IF o # "ok" /\ ~unwrapped
                              THEN Some(evaluated_response) ELSE specialist_response
                       /\ UNCHANGED <<error, raised>>
    /\ Goto(PlainEdges["format_response"])
    /\ eval_outcome' = Some(o)
    /\ UNCHANGED <<both_pc, raw_query, query, validation_result, supervisor_response,
                   individual_responses, it_response, result>>
    /\ UNCHANGED aux_vars

\* _format_response, branch "specialist_response.success": the supervisor
\* evaluates the specialist response(s); followed by the edge to END
format_response_evaluate(o) ==
    /\ pc = "format_response"
    /\ IsSet(specialist_response) /\ Val(specialist_response).success
    /\ LET routing_decision ==
               IF IsSet(supervisor_response)
               THEN Val(supervisor_response).routing_decision ELSE "Unknown"
           unwrapped == IsSet(individual_responses) /\ Val(individual_responses) # <<>>
           specialist_responses ==
               IF unwrapped THEN Val(individual_responses) ELSE <<Val(specialist_response)>>
       IN  /\ calls' = Append(calls, "evaluator")
           /\ eval_args' = Some([original_query |-> query,
                                 specialist_responses |-> specialist_responses,
                                 routing_decision |-> routing_decision])
           /\ IF o = "raise"
              THEN /\ error' = Some(<<"Failed to format response">>)
                   /\ raised' = Append(raised, "evaluator")
                   /\ UNCHANGED <<final_response, metadata, specialist_response>>
              ELSE LET evaluated_response ==
                           evaluate_response(query, specialist_responses, routing_decision, o)
                   IN  /\ final_response' = evaluated_response.message
                       /\ metadata' = EvaluatedMetadata(evaluated_response, routing_decision)
                       \* the one-response fallback stamps the metadata of the
                       \* response object it was given, which is state.specialist_response
                       /\ specialist_response' =
                              IF o # "ok" /\ ~unwrapped
                              THEN Some(evaluated_response) ELSE specialist_response
                       /\ UNCHANGED <<error, raised>>
    /\ Goto(PlainEdges["format_response"])
    /\ eval_outcome' = Some(o)
    /\ UNCHANGED <<both_pc, raw_query, query, validation_result, supervisor_response,
                   individual_responses, it_response, result>>
    /\ UNCHANGED aux_vars

\* _format_response, branch "specialist response failed"; followed by the
\* edge to END
format_response_failed ==
    /\ pc = "format_response"
    /\ ~(IsSet(specialist_response) /\ Val(specialist_response).success)
    /\ final_response' = IF IsSet(specialist_response)
                         THEN Val(specialist_response).message
                         ELSE <<"No response generated">>
    /\ metadata' = FailedMetadata(supervisor_response, error)
    /\ Goto(PlainEdges["format_response"])
    /\ UNCHANGED <<both_pc, raw_query, query, validation_result, supervisor_response,
                   specialist_response, individual_responses, error, it_response,
                   result, calls, raised, eval_args, eval_outcome>>
    /\ UNCHANGED aux_vars

\* _handle_error followed by the edge to END
handle_error ==
    /\ pc = "handle_error"
    /\ LET error_message ==
               IF Truthy(error) THEN Val(error) ELSE <<"An unexpected error occurred">>
       IN  /\ final_response' =
                  <<"I apologize, but I encountered an issue: ">> \o error_message
                    \o <<". Please try again or contact support if the problem persists.">>
           /\ metadata' = [agent_used |-> "Error Handler",
                           tools_used |-> 0,
                           routing_decision |-> "Error",
                           evaluated |-> FALSE,
                           evaluation_success |-> FALSE,
                           error |-> error_message]
    /\ Goto(PlainEdges["handle_error"])
    /\ UNCHANGED <<both_pc, raw_query, query, validation_result, supervisor_response,
                   specialist_response, individual_responses, error, it_response,
                   result, calls, raised, eval_args, eval_outcome>>
    /\ UNCHANGED aux_vars

\* process_query judging success by the presence of a response
final_result_SuccessIfResponse(q, response, md, err) ==
    [query |-> q, response |-> response, metadata |-> md,
     success |-> (response # <<>>), error |-> err]

\* process_query: the record returned when workflow.ainvoke returned
final_result(q, response, md, err) ==
    [query |-> q, response |-> response, metadata |-> md,
     success |-> ~Truthy(err), error |-> err]

\* process_query with the except branch reporting success
workflow_failed_result_Success(q, text) ==
    [query |-> q,
     response |-> <<"I apologize, but I'm experiencing technical difficulties. Please try again later.">>,
     metadata |-> [error |-> "Workflow processing failed"],
     success |-> TRUE,
     error |-> Some(text)]

\* process_query: the record returned by the except branch
workflow_failed_result(q, text) ==
    [query |-> q,
     response |-> <<"I apologize, but I'm experiencing technical difficulties. Please try again later.">>,
     metadata |-> [error |-> "Workflow processing failed"],
     success |-> FALSE,
     error |-> Some(text)]

\* process_query: workflow.ainvoke returned the final state
return_result ==
    /\ pc = "END"
    /\ result' = Some(final_result(raw_query, final_response, metadata, error))
    /\ pc' = "returned"
    /\ UNCHANGED <<both_pc, raw_query, state_vars, it_response, visited, calls,
                   raised, eval_args, eval_outcome>>
    /\ UNCHANGED aux_vars

\* process_query: workflow.ainvoke raised; the except branch builds the result
ainvoke_raises(text) ==
    /\ pc \in Nodes
    /\ result' = Some(workflow_failed_result(raw_query, text))
    /\ raised' = Append(raised, "workflow")
    /\ pc' = "returned"
    /\ UNCHANGED <<both_pc, raw_query, state_vars, it_response, visited, calls,
                   eval_args, eval_outcome>>
    /\ UNCHANGED aux_vars

Next ==
    \/ start_workflow
    \/ \E o \in ValidatorOutcomes : validate_input(o)
    \/ \E o \in RouterOutcomes : supervisor_route(o)
    \/ \E o \in SpecialistOutcomes : it_specialist(o)
    \/ \E o \in SpecialistOutcomes : finance_specialist(o)
    \/ both_call_it
    \/ \E o \in SpecialistOutcomes : both_it_done(o)
    \/ both_call_finance
    \/ \E o \in SpecialistOutcomes : both_finance_done(o)
    \/ \E o \in EvaluatorOutcomes : format_response_evaluate(o)
    \/ format_response_failed
    \/ handle_error
    \/ return_result
    \/ \E text \in ExceptionTexts : ainvoke_raises(text)

Spec == Init /\ [][Next]_vars

TypeOK ==
    /\ pc \in {"START", "END", "returned"} \cup Nodes
    /\ both_pc \in {"idle", "it_running", "it_done", "finance_running"}
    /\ DOMAIN error \subseteq {1}
    /\ DOMAIN result \subseteq {1}

\* ------------------------------------------------------------------------
\* Properties
\* ------------------------------------------------------------------------

Occurs(x, seq) == \E i \in 1..Len(seq) : seq[i] = x

Count(x, seq) == Cardinality({i \in 1..Len(seq) : seq[i] = x})

\* process_query returned the final state of a completed run
Completed == pc = "returned" /\ ~Occurs("workflow", raised)

\* C1: at END, final_response is a non-empty message and metadata is a
\* non-empty record, whatever the outcomes of the validator, the router,
\* the specialists and the evaluator were.
C1_TerminalStateComplete ==
    pc = "END" => (final_response # <<>> /\ DOMAIN metadata # {})

\* C2: process_query always returns a record with the fields response,
\* metadata, success and error, and success is false in every run in which
\* an exception was raised, wherever it was raised.
C2_NoExceptionReachesCaller ==
    pc = "returned" =>
        /\ IsSet(result)
        /\ {"response", "metadata", "success", "error"} \subseteq DOMAIN Val(result)
        /\ (raised # <<>> => Val(result).success = FALSE)

\* C2 witness: a run whose evaluator raised has returned
C2_Witness ==
    pc = "returned" /\ Occurs("evaluator", raised)

\* C3: in the result, success is true exactly when the error field is unset;
\* after a completed run the error field of the result is the error field of
\* the workflow state, so success is false exactly when some stage set it.
C3_SuccessIffNoError ==
    pc = "returned" =>
        /\ Val(result).success <=> ~IsSet(Val(result).error)
        /\ Completed => Val(result).error = error
        /\ Completed => (Val(result).success <=> ~IsSet(error))

\* C3 witness: a completed run in which a specialist set the error
C3_Witness ==
    /\ Completed
    /\ IsSet(error)
    /\ visited = <<"validate_input", "supervisor_route", "finance_specialist", "format_response">>

\* the complete paths the graph allows
AllowedPaths ==
    {<<"validate_input", "supervisor_route", n, "format_response">> : n \in SpecialistNodes}
      \cup {<<"validate_input", "handle_error">>,
            <<"validate_input", "supervisor_route", "handle_error">>}

IsPrefix(s, t) == Len(s) <= Len(t) /\ SubSeq(t, 1, Len(s)) = s

\* C4: the nodes entered in a run form a prefix of one of the allowed paths
\* (ValidateInput, SupervisorRoute, exactly one specialist node,
\* FormatResponse; or ValidateInput, HandleError; or ValidateInput,
\* SupervisorRoute, HandleError), the run is at the last node entered, and a
\* run that reaches END has followed one of them to its end.
C4_OnlyAllowedPaths ==
    /\ \E path \in AllowedPaths : IsPrefix(visited, path)
    /\ pc \in Nodes => visited[Len(visited)] = pc
    /\ pc = "END" => visited \in AllowedPaths

\* C4 witness: a run through BothSpecialists and FormatResponse is at END
C4_Witness ==
    /\ pc = "END"
    /\ visited = <<"validate_input", "supervisor_route", "both_specialists", "format_response">>

\* the validator ran and reported the query invalid, or raised
ValidationFailed ==
    /\ Occurs("validator", calls)
    /\ (~IsSet(validation_result) \/ ~Val(validation_result).is_valid)

\* C5: when the validator reports the query invalid or raises, the run goes
\* to HandleError, the router, the specialists and the evaluator are never
\* invoked, and a completed run returns success=false with error equal to the
\* validator's message ('Failed to validate input' when it raised).
C5_InvalidInputGoesToHandleError ==
    ValidationFailed =>
        /\ calls = <<"validator">>
        /\ visited = <<"validate_input", "handle_error">>
        /\ Completed =>
              /\ Val(result).success = FALSE
              /\ Val(result).error =
                    IF IsSet(validation_result)
                    THEN Val(validation_result).error_message
                    ELSE Some(<<"Failed to validate input">>)

\* C5 witness: a completed run whose validator reported the query invalid
C5_Witness ==
    /\ Completed
    /\ IsSet(validation_result)
    /\ ~Val(validation_result).is_valid

\* the router returned success with this decision
RoutedTo(decision) ==
    /\ IsSet(supervisor_response)
    /\ Val(supervisor_response).success
    /\ Val(supervisor_response).routing_decision = decision

\* C6: at the end of a run routed to IT only the IT specialist was invoked,
\* exactly once; routed to Finance only the Finance specialist, exactly once;
\* routed to Both each of the two specialists exactly once.
C6_ExactlyTheRoutedSpecialists ==
    pc = "END" =>
        /\ RoutedTo("IT") =>
              Count("it_agent", calls) = 1 /\ Count("finance_agent", calls) = 0
        /\ RoutedTo("Finance") =>
              Count("it_agent", calls) = 0 /\ Count("finance_agent", calls) = 1
        /\ RoutedTo("Both") =>
              Count("it_agent", calls) = 1 /\ Count("finance_agent", calls) = 1

\* the router ran and did not route to a specialist: it returned Unclear,
\* returned success=false, or raised
RoutingFailed ==
    /\ Occurs("router", calls)
    /\ \/ ~IsSet(supervisor_response)
       \/ ~Val(supervisor_response).success
       \/ Val(supervisor_response).routing_decision = "Unclear"

BothReturned == IsSet(individual_responses)

\* C8: in BothSpecialists the combined success is it.success AND
\* finance.success; the workflow error of the stage is set exactly when it is
\* false; and the combined message of a failed stage marks each domain as
\* failed or succeeded according to that specialist's own success flag.
C8_BothCombinedSuccessIsAnd ==
    BothReturned =>
        LET it_resp == Val(individual_responses)[1]
            finance_resp == Val(individual_responses)[2]
            combined == Val(specialist_response)
            partial == Some(<<"Partial success in multi-domain processing">>)
        IN  /\ combined.success <=> (it_resp.success /\ finance_resp.success)
            /\ (error = partial) <=> ~combined.success
            /\ pc = "format_response" => (IsSet(error) <=> ~combined.success)
            /\ ~combined.success =>
                  /\ Contains(combined.message,
                         <<"## IT Support Response:\n">> \o it_resp.message)
                       <=> it_resp.success
                  /\ Contains(combined.message,
                         <<"## IT Support Issue:\n">> \o it_resp.message)
                       <=> ~it_resp.success
                  /\ Contains(combined.message,
                         <<"## Finance Support Response:\n">> \o finance_resp.message)
                       <=> finance_resp.success
                  /\ Contains(combined.message,
                         <<"## Finance Support Issue:\n">> \o finance_resp.message)
                       <=> ~finance_resp.success

\* C8 witness: BothSpecialists finished with the IT specialist failed and the
\* Finance specialist succeeded
C8_Witness ==
    /\ BothReturned
    /\ pc = "format_response"
    /\ ~Val(individual_responses)[1].success
    /\ Val(individual_responses)[2].success

\* C9: in BothSpecialists the Finance call is started without waiting for the
\* IT call to finish (while the IT call is in flight the Finance call can
\* start), and the stage is left only after both calls have completed.
C9_SpecialistsRunConcurrently ==
    /\ (pc = "both_specialists" /\ both_pc = "it_running") => ENABLED both_call_finance
    /\ (Occurs("both_specialists", visited) /\ pc # "both_specialists" /\ pc # "returned")
          => (Count("it_agent", calls) = 1 /\ Count("finance_agent", calls) = 1)

\* the evaluator's LLM call failed and evaluate_response fell back
EvaluationFellBack ==
    /\ pc \in {"END", "returned"}
    /\ eval_outcome \in {Some("llm_error"), Some("unexpected")}

\* C10: when the evaluator's LLM call fails after a successful specialist
\* stage, the final response equals the single specialist's message in the
\* one-specialist case and contains the message of each of the two
\* specialists in the two-specialist case; the caller receives that response.
C10_FallbackKeepsSpecialistContent ==
    EvaluationFellBack =>
        /\ IF BothReturned
           THEN \A i \in 1..2 :
                    Contains(final_response, Val(individual_responses)[i].message)
           ELSE /\ final_response = Val(specialist_response).message
                /\ final_response = LLMAnswer(Val(specialist_response).agent_name)
        /\ pc = "returned" => Val(result).response = final_response

\* C10 witness: a two-specialist run whose evaluation fell back has returned
C10_Witness ==
    /\ EvaluationFellBack
    /\ BothReturned
    /\ pc = "returned"

\* FormatResponse ran to its end: the graph reached END through it
Formatted == (pc = "END" \/ Completed) /\ Occurs("format_response", visited)

\* the specialist stage produced a response with success=false
SpecialistStageFailed ==
    IsSet(specialist_response) /\ ~Val(specialist_response).success

StageName(callee) ==
    IF callee = "router" THEN "Supervisor Agent (Routing)"
    ELSE IF callee = "it_agent" THEN "IT Agent"
    ELSE IF callee = "finance_agent" THEN "Finance Agent"
    ELSE "Supervisor Agent (Evaluation)"

\* the stages that ran, in the order of their calls
RECURSIVE StagesRun(_)
StagesRun(cs) ==
    IF cs = <<>> THEN <<>>
    ELSE IF Head(cs) = "validator" THEN StagesRun(Tail(cs))
    ELSE <<StageName(Head(cs))>> \o StagesRun(Tail(cs))

\* a processing_path without its closing 'Error Handler' marker
WithoutErrorHandler(path) ==
    IF path # <<>> /\ path[Len(path)] = "Error Handler"
    THEN SubSeq(path, 1, Len(path) - 1) ELSE path

\* C12: on every run that went through FormatResponse, processing_path lists
\* exactly the stages that ran, in order (routing, the specialists invoked,
\* the evaluation if and only if the evaluator was invoked), and
\* total_processing_steps is the length of the list.
C12_PathListsStagesThatRan ==
    Formatted =>
        /\ "processing_path" \in DOMAIN metadata
        /\ WithoutErrorHandler(metadata.processing_path) = StagesRun(calls)
        /\ metadata.total_processing_steps = Len(metadata.processing_path)

\* C13: when the routed specialist's process_query raises, process_query
\* returns success=false and the response text contains that stage's failure
\* message ('Failed to process IT query' / 'Failed to process Finance query').
C13_SpecialistExceptionInResponse ==
    Completed =>
        /\ (RoutedTo("IT") /\ Occurs("it_agent", raised)) =>
              /\ Val(result).success = FALSE
              /\ Contains(Val(result).response, <<"Failed to process IT query">>)
        /\ (RoutedTo("Finance") /\ Occurs("finance_agent", raised)) =>
              /\ Val(result).success = FALSE
              /\ Contains(Val(result).response, <<"Failed to process Finance query">>)

\* ---------------------------------------------------------------------------
\* One call of a specialist's process_query, step by step (agents.py 384-480
\* for ITAgent, 520-616 for FinanceAgent): rag_search, web_search, the LLM.
\* ---------------------------------------------------------------------------

Agents == {"IT Agent", "Finance Agent"}

AgentDomain(agent) == IF agent = "IT Agent" THEN "IT" ELSE "Finance"

AgentDocLabel(agent) ==
    IF agent = "IT Agent" THEN "Internal IT Documentation:" ELSE "Internal Finance Documents:"

AgentUnexpectedMessage(agent) ==
    IF agent = "IT Agent"
    THEN <<"I'm experiencing technical difficulties with processing your IT query. Please try again later.">>
    ELSE <<"I'm experiencing technical difficulties with processing your finance query. Please try again later.">>

AgentLLMErrorMessage ==
    <<"I'm experiencing technical difficulties with generating the response. Please try again later.">>

\* the AgentResponse process_query returns after the tool searches, failing
\* as soon as one tool call did not succeed
agent_result_FailsOnToolFailure(agent, tool_calls, additional_context, llm) ==
    IF llm = "ok" /\ SuccessfulTools(tool_calls) = Len(tool_calls)
    THEN create_response(agent, TRUE, LLMAnswer(agent), NoDecision, tool_calls,
             [domain |-> AgentDomain(agent),
              tools_used |-> Len(tool_calls),
              successful_tools |-> SuccessfulTools(tool_calls),
              context_length |-> Len(additional_context)])
    ELSE create_response(agent, FALSE, AgentLLMErrorMessage, NoDecision, tool_calls,
             [error_type |-> "LLM_ERROR", error_code |-> "LLM_CALL_ERROR"])

\* the AgentResponse process_query returns after the tool searches: the
\* success return, the LLMError handler, or the Exception handler
agent_result(agent, tool_calls, additional_context, llm) ==
    IF llm = "ok"
    THEN create_response(agent, TRUE, LLMAnswer(agent), NoDecision, tool_calls,
             [domain |-> AgentDomain(agent),
              tools_used |-> Len(tool_calls),
              successful_tools |-> SuccessfulTools(tool_calls),
              context_length |-> Len(additional_context)])
    ELSE IF llm = "llm_error"
    THEN create_response(agent, FALSE, AgentLLMErrorMessage, NoDecision, tool_calls,
             [error_type |-> "LLM_ERROR", error_code |-> "LLM_CALL_ERROR"])
    ELSE create_response(agent, FALSE, AgentUnexpectedMessage(agent), NoDecision, tool_calls,
             [error_type |-> "UNEXPECTED_ERROR"])

\* process_query is entered: tool_calls = [], additional_context = ""
InitAgent ==
    /\ WorkflowInit
    /\ RoutingIdle
    /\ ValidationIdle
    /\ SanitizeIdle
    /\ RagIdle
    /\ RoundTripIdle
    /\ ContextIdle
    /\ EmbedIdle
    /\ a_agent \in Agents
    /\ a_pc = "rag_call"
    /\ a_tool_calls = <<>>
    /\ a_context = <<>>
    /\ a_invocations = <<>>
    /\ a_outcomes = <<>>
    /\ a_response = None

AgentUnchanged ==
    UNCHANGED <<pc, both_pc, raw_query, query, validation_result, supervisor_response,
                specialist_response, individual_responses, final_response, error,
                metadata, it_response, result, visited, calls, raised, eval_args,
                eval_outcome, routing_vars, validation_vars, sanitize_vars, rag_vars, roundtrip_vars, context_vars, embed_vars>>

\* await self.tool_registry.execute_tool("rag_search", ...)
agent_call_rag ==
    /\ a_pc = "rag_call"
    /\ a_invocations' = Append(a_invocations, "rag_search")
    /\ a_pc' = "rag_wait"
    /\ UNCHANGED <<a_agent, a_tool_calls, a_context, a_outcomes, a_response>>
    /\ AgentUnchanged

\* rag_search whose exception leaves process_query through the outer handler
agent_rag_done_RaiseAborts(o) ==
    /\ a_pc = "rag_wait"
    /\ a_outcomes' = Append(a_outcomes, o)
    /\ IF o = "raise"
       THEN /\ a_pc' = "done"
            /\ a_response' = Some(agent_result(a_agent, a_tool_calls, a_context, "unexpected"))
            /\ UNCHANGED <<a_tool_calls, a_context>>
       ELSE /\ a_tool_calls' = Append(a_tool_calls, ToolCallEntry("rag_search", o))
            /\ a_context' = a_context \o ToolContext(AgentDocLabel(a_agent), "rag_search", o)
            /\ a_pc' = "web_call"
            /\ UNCHANGED a_response
    /\ UNCHANGED <<a_agent, a_invocations>>
    /\ AgentUnchanged

\* rag_search returned a result, or raised into the inner handler
agent_rag_done(o) ==
    /\ a_pc = "rag_wait"
    /\ a_outcomes' = Append(a_outcomes, o)
    /\ a_tool_calls' = Append(a_tool_calls, ToolCallEntry("rag_search", o))
    /\ a_context' = a_context \o ToolContext(AgentDocLabel(a_agent), "rag_search", o)
    /\ a_pc' = "web_call"
    /\ UNCHANGED <<a_agent, a_invocations, a_response>>
    /\ AgentUnchanged

\* await self.tool_registry.execute_tool("web_search", ...)
agent_call_web ==
    /\ a_pc = "web_call"
    /\ a_invocations' = Append(a_invocations, "web_search")
    /\ a_pc' = "web_wait"
    /\ UNCHANGED <<a_agent, a_tool_calls, a_context, a_outcomes, a_response>>
    /\ AgentUnchanged

\* web_search returned a result, or raised into the inner handler
agent_web_done(o) ==
    /\ a_pc = "web_wait"
    /\ a_outcomes' = Append(a_outcomes, o)
    /\ a_tool_calls' = Append(a_tool_calls, ToolCallEntry("web_search", o))
    /\ a_context' = a_context \o ToolContext("External Resources:", "web_search", o)
    /\ a_pc' = "llm_call"
    /\ UNCHANGED <<a_agent, a_invocations, a_response>>
    /\ AgentUnchanged

\* await self._call_llm(messages)
agent_call_llm ==
    /\ a_pc = "llm_call"
    /\ a_invocations' = Append(a_invocations, "llm")
    /\ a_pc' = "llm_wait"
    /\ UNCHANGED <<a_agent, a_tool_calls, a_context, a_outcomes, a_response>>
    /\ AgentUnchanged

\* the LLM call returned or raised: process_query returns its AgentResponse
agent_llm_done(o) ==
    /\ a_pc = "llm_wait"
    /\ a_outcomes' = Append(a_outcomes, o)
    /\ a_response' = Some(agent_result(a_agent, a_tool_calls, a_context, o))
    /\ a_pc' = "done"
    /\ UNCHANGED <<a_agent, a_tool_calls, a_context, a_invocations>>
    /\ AgentUnchanged

NextAgent ==
    \/ agent_call_rag
    \/ \E o \in ToolOutcomes : agent_rag_done(o)
    \/ agent_call_web
    \/ \E o \in ToolOutcomes : agent_web_done(o)
    \/ agent_call_llm
    \/ \E o \in AgentLLMOutcomes : agent_llm_done(o)

SpecAgent == InitAgent /\ [][NextAgent]_vars

\* the step-by-step call returns what the one-step operators of the workflow
\* return for the same outcomes
AgentStepsAgree ==
    a_pc = "done" =>
        LET o == [kind |-> "return", rag |-> a_outcomes[1], web |-> a_outcomes[2],
                  llm |-> a_outcomes[3]]
        IN  Val(a_response) =
                IF a_agent = "IT Agent" THEN ITAgent_process_query("q", o)
                ELSE FinanceAgent_process_query("q", o)

\* C14: a finished specialist call has invoked rag_search, then web_search,
\* then the LLM, each exactly once, whatever the searches returned or raised,
\* and its tool_calls hold one rag_search entry followed by one web_search entry
C14_EachToolOnceInOrder ==
    /\ IsPrefix(a_invocations, <<"rag_search", "web_search", "llm">>)
    /\ a_pc = "done" =>
          /\ a_invocations = <<"rag_search", "web_search", "llm">>
          /\ Len(a_tool_calls) = 2
          /\ a_tool_calls[1].tool = "rag_search"
          /\ a_tool_calls[2].tool = "web_search"
          /\ Val(a_response).tool_calls = a_tool_calls

\* a call finished although rag_search raised and web_search failed
C14_Witness ==
    /\ a_pc = "done"
    /\ a_outcomes[1] = "raise"
    /\ a_outcomes[2] = "fail"
    /\ Len(Val(a_response).tool_calls) = 2

\* C15: a finished specialist call has success = FALSE exactly when its LLM
\* call failed, whatever the tools did; a failed one carries a
\* technical-difficulties message and the tool_calls recorded before the failure
C15_FailsIffLLMFailed ==
    a_pc = "done" =>
        LET r == Val(a_response) IN
        /\ (r.success = FALSE) <=> (a_outcomes[3] # "ok")
        /\ (a_outcomes[3] # "ok") =>
              /\ r.message \in {AgentLLMErrorMessage, AgentUnexpectedMessage(a_agent)}
              /\ r.tool_calls = a_tool_calls
              /\ Len(r.tool_calls) = 2

\* a call succeeded although both tools failed, or failed although both worked
C15_Witness ==
    /\ a_pc = "done"
    /\ \/ a_outcomes = <<"fail", "raise", "ok">> /\ Val(a_response).success
       \/ a_outcomes = <<"ok", "ok", "llm_error">> /\ ~Val(a_response).success

\* C16: every finished specialist call, successful or not, reports
\* its domain, the tools used, the successful tools and the context length
C16_MetadataAlwaysReportsCounts ==
    a_pc = "done" =>
        {"domain", "tools_used", "successful_tools", "context_length"}
            \subseteq DOMAIN Val(a_response).metadata

\* ---------------------------------------------------------------------------
\* One call of SupervisorAgent.process_query on a text (agents.py 158-203),
\* with _parse_routing_decision (agents.py 316-351) computed on characters.
\* A text is a sequence of one-character strings.
\* ---------------------------------------------------------------------------

UpperLetters ==
    <<"A", "B", "C", "D", "E", "F", "G", "H", "I", "J", "K", "L", "M", "N", "O", "P", "Q", "R", "S", "T", "U", "V", "W", "X", "Y", "Z">>

LowerLetters ==
    <<"a", "b", "c", "d", "e", "f", "g", "h", "i", "j", "k", "l", "m", "n", "o", "p", "q", "r", "s", "t", "u", "v", "w", "x", "y", "z">>

Digits == {"0", "1", "2", "3", "4", "5", "6", "7", "8", "9"}

Letters == {UpperLetters[i] : i \in 1..26} \cup {LowerLetters[i] : i \in 1..26}

\* str.isspace for the characters of the model
Whitespace == {" ", "\t", "\n", "\r"}

\* the class \w of the re module
IsWordChar(c) == c \in Letters \cup Digits \cup {"_"}

\* str.lower, one character
LowerChar(c) ==
    IF \E i \in 1..26 : UpperLetters[i] = c
    THEN LowerLetters[CHOOSE i \in 1..26 : UpperLetters[i] = c]
    ELSE c

\* str.lower
Lower(text) == [i \in 1..Len(text) |-> LowerChar(text[i])]

\* re.search(r'\bword\b', text) is not None, for a word made of \w characters
WordSearch(word, text) ==
    \E i \in 1..(Len(text) - Len(word) + 1) :
        /\ SubSeq(text, i, i + Len(word) - 1) = word
        /\ (i = 1 \/ ~IsWordChar(text[i - 1]))
        /\ (i + Len(word) - 1 = Len(text) \/ ~IsWordChar(text[i + Len(word)]))

\* response.strip().split()[0] when the list is not empty, else <<>>
FirstWord(text) ==
    IF \A i \in 1..Len(text) : text[i] \in Whitespace THEN <<>>
    ELSE LET first == CHOOSE i \in 1..Len(text) :
                          /\ text[i] \notin Whitespace
                          /\ \A j \in 1..(i - 1) : text[j] \in Whitespace
             ends == {i \in first..Len(text) : text[i] \in Whitespace}
             last == IF ends = {} THEN Len(text)
                     ELSE (CHOOSE i \in ends : \A j \in ends : i <= j) - 1
         IN  SubSeq(text, first, last)

W_finance == <<"f", "i", "n", "a", "n", "c", "e">>
W_it == <<"i", "t">>
W_both == <<"b", "o", "t", "h">>
W_unclear == <<"u", "n", "c", "l", "e", "a", "r">>

\* first_word.title() if first_word != "it" else "IT", for the four labels
LabelOf(first_word) ==
    IF first_word = W_finance THEN "Finance"
    ELSE IF first_word = W_it THEN "IT"
    ELSE IF first_word = W_both THEN "Both"
    ELSE "Unclear"

\* the standalone-word search looking for IT before Finance
pattern_fallback_ITFirst(text) ==
    LET response_lower == Lower(text)
    IN  IF WordSearch(W_it, response_lower) THEN "IT"
        ELSE IF WordSearch(W_finance, response_lower) THEN "Finance"
        ELSE IF WordSearch(W_both, response_lower) THEN "Both"
        ELSE "Unclear"

\* the standalone-word search of _parse_routing_decision, its default included
pattern_fallback(text) ==
    LET response_lower == Lower(text)
    IN  IF WordSearch(W_finance, response_lower) THEN "Finance"
        ELSE IF WordSearch(W_it, response_lower) THEN "IT"
        ELSE IF WordSearch(W_both, response_lower) THEN "Both"
        ELSE IF WordSearch(W_unclear, response_lower) THEN "Unclear"
        ELSE "Unclear"

\* _parse_routing_decision looking for standalone words only
parse_routing_decision_PatternOnly(text) ==
    pattern_fallback(text)

\* SupervisorAgent._parse_routing_decision
parse_routing_decision(text) ==
    LET first_word == Lower(FirstWord(text))
    IN  IF first_word \in {W_finance, W_it, W_both, W_unclear}
        THEN LabelOf(first_word)
        ELSE pattern_fallback(text)

\* the pieces the LLM responses of the model are made of
RoutingPieces ==
    { <<"F", "i", "n", "a", "n", "c", "e">>, <<"I", "T">>, <<"i", "t">>,
      <<"B", "o", "t", "h">>, <<"U", "N", "C", "L", "E", "A", "R">>,
      <<" ">>, <<"-">>, <<"s">>, <<"'">>, <<"\n">> }

MaxRoutingPieces == 3

\* the texts made of at most n pieces
RECURSIVE TextsOf(_, _)
TextsOf(pieces, n) ==
    IF n = 0 THEN {<<>>}
    ELSE LET shorter == TextsOf(pieces, n - 1)
         IN  shorter \cup {t \o p : t \in shorter, p \in pieces}

\* what self._call_llm does in process_query: return a text or raise
RoutingLLMResults ==
    [kind : {"text"}, text : TextsOf(RoutingPieces, MaxRoutingPieces)]
        \cup [kind : {"llm_error", "unexpected"}, text : {<<>>}]

InitRouting ==
    /\ WorkflowInit
    /\ AgentIdle
    /\ ValidationIdle
    /\ SanitizeIdle
    /\ RagIdle
    /\ RoundTripIdle
    /\ ContextIdle
    /\ EmbedIdle
    /\ r_llm = None
    /\ r_pc = "call"
    /\ r_response = None

RoutingUnchanged ==
    UNCHANGED <<pc, both_pc, raw_query, query, validation_result, supervisor_response,
                specialist_response, individual_responses, final_response, error,
                metadata, it_response, result, visited, calls, raised, eval_args,
                eval_outcome, agent_vars, validation_vars, sanitize_vars, rag_vars, roundtrip_vars, context_vars, embed_vars>>

\* response = await self._call_llm(messages): a text comes back, or it raises
supervisor_call_llm(o) ==
    /\ r_pc = "call"
    /\ r_llm' = Some(o)
    /\ r_pc' = "llm_done"
    /\ UNCHANGED r_response
    /\ RoutingUnchanged

\* the rest of process_query, returning a routing decision after an LLM failure
supervisor_return_DecidesOnFailure ==
    /\ r_pc = "llm_done"
    /\ r_response' = Some(SupervisorAgent_process_query(raw_query,
                          IF Val(r_llm).kind = "text"
                          THEN parse_routing_decision(Val(r_llm).text)
                          ELSE "IT"))
    /\ r_pc' = "done"
    /\ UNCHANGED r_llm
    /\ RoutingUnchanged

\* the rest of process_query: parse the decision and build the response, or
\* build the response of the handler that caught the failure
supervisor_return ==
    /\ r_pc = "llm_done"
    /\ r_response' = Some(SupervisorAgent_process_query(raw_query,
                          IF Val(r_llm).kind = "text"
                          THEN parse_routing_decision(Val(r_llm).text)
                          ELSE Val(r_llm).kind))
    /\ r_pc' = "done"
    /\ UNCHANGED r_llm
    /\ RoutingUnchanged

NextRouting ==
    \/ \E o \in RoutingLLMResults : supervisor_call_llm(o)
    \/ supervisor_return

SpecRouting == InitRouting /\ [][NextRouting]_vars

\* the first whitespace-delimited token of text is word, letter case aside
FirstTokenIs(word, text) ==
    \E i \in 1..Len(text) :
        /\ \A j \in 1..(i - 1) : text[j] \in Whitespace
        /\ i + Len(word) - 1 <= Len(text)
        /\ \A k \in 1..Len(word) :
              \E u \in 1..26 : /\ LowerLetters[u] = word[k]
                               /\ text[i + k - 1] \in {LowerLetters[u], UpperLetters[u]}
        /\ (i + Len(word) - 1 = Len(text) \/ text[i + Len(word)] \in Whitespace)

\* C17: when the first whitespace-delimited token of the LLM response is one
\* of IT, Finance, Both, Unclear in any letter case, the routing call decides
\* exactly that label, whatever follows the token
C17_FirstTokenDecides ==
    (r_pc = "done" /\ Val(r_llm).kind = "text") =>
        LET text == Val(r_llm).text
            decision == Val(r_response).routing_decision
        IN  /\ FirstTokenIs(W_finance, text) => decision = "Finance"
            /\ FirstTokenIs(W_it, text) => decision = "IT"
            /\ FirstTokenIs(W_both, text) => decision = "Both"
            /\ FirstTokenIs(W_unclear, text) => decision = "Unclear"

\* "it Finance" was decided as IT although Finance stands alone behind it
C17_Witness ==
    /\ r_pc = "done"
    /\ Val(r_llm).kind = "text"
    /\ Val(r_llm).text = <<"i", "t", " ", "F", "i", "n", "a", "n", "c", "e">>
    /\ Val(r_response).routing_decision = "IT"

\* C18: a routing call succeeds exactly when the LLM call succeeded and the
\* parsed decision is IT, Finance or Both; a parsed Unclear fails with
\* decision Unclear and the message asking for an IT or Finance question; an
\* LLM failure fails with no routing decision
C18_RoutingSuccess ==
    r_pc = "done" =>
        LET r == Val(r_response)
            llm_ok == Val(r_llm).kind = "text"
            parsed == parse_routing_decision(Val(r_llm).text)
        IN  /\ r.success <=> (llm_ok /\ parsed \in {"IT", "Finance", "Both"})
            /\ r.success => r.routing_decision = parsed
            /\ (llm_ok /\ parsed = "Unclear") =>
                  /\ ~r.success
                  /\ r.routing_decision = "Unclear"
                  /\ r.message = ClarificationMessage
            /\ ~llm_ok =>
                  /\ ~r.success
                  /\ r.routing_decision = NoDecision

\* a text without any label was parsed as Unclear and the call failed, with
\* the clarification message
C18_Witness ==
    /\ r_pc = "done"
    /\ Val(r_llm).kind = "text"
    /\ Val(r_llm).text = <<"i", "t", "s">>
    /\ ~Val(r_response).success
    /\ Val(r_response).routing_decision = "Unclear"

\* ---------------------------------------------------------------------------
\* One call of InputValidator.validate_query (validation.py 31-82) on a query
\* given character by character, with _sanitize_input (84-95) and
\* _contains_suspicious_patterns (97-123).
\* ---------------------------------------------------------------------------

\* ValidationConfig.min_query_length and max_query_length
min_query_length == 5
max_query_length == 1000

\* the character \x60, written as a token
BACKTICK == "\\x60"

\* the punctuation of ValidationConfig.allowed_characters
AllowedPunctuation ==
    {" ", ".", "!", "?", "@", "#", "$", "%", "^", "&", "*", "(", ")", "_", "+", "-", "=", "[", "]", "{", "}", "|", ";", "'", ":", "\"", ",", "/", "<", ">", BACKTICK, "~"}

\* ValidationConfig.allowed_characters
allowed_chars == Letters \cup Digits \cup AllowedPunctuation

\* the characters \x00 and \x7f, written as tokens
NUL == "\\x00"
DEL == "\\x7f"

\* the class [\x00-\x08\x0b-\x0c\x0e-\x1f\x7f], for the characters of the model
ControlChars == {NUL, "\f", DEL}

\* re.sub(r'\s+', ' ', text): every run of whitespace becomes one blank
CollapseWhitespace(text) ==
    LET marked == [i \in 1..Len(text) |->
                      [c |-> IF text[i] \in Whitespace THEN " " ELSE text[i],
                       inside |-> text[i] \in Whitespace /\ i > 1 /\ text[i - 1] \in Whitespace]]
        RunStart(m) == ~m.inside
        kept == SelectSeq(marked, RunStart)
    IN  [i \in 1..Len(kept) |-> kept[i].c]

\* str.strip
Strip(text) ==
    LET solid == {i \in 1..Len(text) : text[i] \notin Whitespace}
    IN  IF solid = {} THEN <<>>
        ELSE SubSeq(text, CHOOSE i \in solid : \A j \in solid : i <= j,
                          CHOOSE i \in solid : \A j \in solid : i >= j)

\* InputValidator._sanitize_input stripping before it filters
sanitize_input_StripsFirst(raw) ==
    LET NotControl(c) == c \notin ControlChars
        Allowed(c) == c \in allowed_chars
    IN  CollapseWhitespace(SelectSeq(SelectSeq(Strip(raw), NotControl), Allowed))

\* InputValidator._sanitize_input
sanitize_input(raw) ==
    LET NotControl(c) == c \notin ControlChars
        Allowed(c) == c \in allowed_chars
    IN  Strip(CollapseWhitespace(SelectSeq(SelectSeq(raw, NotControl), Allowed)))

\* the literal lit stands in text at position i
At(lit, text, i) ==
    /\ i >= 1
    /\ i + Len(lit) - 1 <= Len(text)
    /\ SubSeq(text, i, i + Len(lit) - 1) = lit

\* re.search of a literal
HasLiteral(lit, text) == \E i \in 1..Len(text) : At(lit, text, i)

\* re.search of a, then at least min whitespace characters, then b
HasWithGap(a, min, b, text) ==
    \E i \in 1..Len(text) :
        /\ At(a, text, i)
        /\ \E g \in min..(Len(text) - i) :
              /\ \A k \in 0..(g - 1) : text[i + Len(a) + k] \in Whitespace
              /\ At(b, text, i + Len(a) + g)

P_script_open == <<"<", "s", "c", "r", "i", "p", "t">>
P_script_close == <<"<", "/", "s", "c", "r", "i", "p", "t", ">">>
P_javascript == <<"j", "a", "v", "a", "s", "c", "r", "i", "p", "t", ":">>
P_data_html == <<"d", "a", "t", "a", ":", "t", "e", "x", "t", "/", "h", "t", "m", "l">>
P_vbscript == <<"v", "b", "s", "c", "r", "i", "p", "t", ":">>
P_onload == <<"o", "n", "l", "o", "a", "d">>
P_onerror == <<"o", "n", "e", "r", "r", "o", "r">>
P_onclick == <<"o", "n", "c", "l", "i", "c", "k">>
P_eval == <<"e", "v", "a", "l">>
P_exec == <<"e", "x", "e", "c">>
P_system == <<"s", "y", "s", "t", "e", "m">>
P_import == <<"i", "m", "p", "o", "r", "t">>
P_os == <<"o", "s">>
P_subprocess == <<"s", "u", "b", "p", "r", "o", "c", "e", "s", "s">>
P_dunder_import == <<"_", "_", "i", "m", "p", "o", "r", "t", "_", "_">>
P_dotdot_slash == <<".", ".", "/">>
P_dotdot_backslash == <<".", ".", "\\">>

\* re.search(r'<script[^>]*>.*?</script>', text)
HasScriptTag(text) ==
    \E i \in 1..Len(text) :
        /\ At(P_script_open, text, i)
        /\ \E j \in (i + Len(P_script_open))..Len(text) :
              /\ text[j] = ">"
              /\ \A m \in (i + Len(P_script_open))..(j - 1) : text[m] # ">"
              /\ \E k \in (j + 1)..Len(text) :
                    /\ At(P_script_close, text, k)
                    /\ \A m \in (j + 1)..(k - 1) : text[m] # "\n"

\* InputValidator._contains_suspicious_patterns
contains_suspicious_patterns(raw) ==
    LET query_lower == Lower(raw)
    IN  \/ HasScriptTag(query_lower)
        \/ HasLiteral(P_javascript, query_lower)
        \/ HasLiteral(P_data_html, query_lower)
        \/ HasLiteral(P_vbscript, query_lower)
        \/ HasWithGap(P_onload, 0, <<"=">>, query_lower)
        \/ HasWithGap(P_onerror, 0, <<"=">>, query_lower)
        \/ HasWithGap(P_onclick, 0, <<"=">>, query_lower)
        \/ HasWithGap(P_eval, 0, <<"(">>, query_lower)
        \/ HasWithGap(P_exec, 0, <<"(">>, query_lower)
        \/ HasWithGap(P_system, 0, <<"(">>, query_lower)
        \/ HasWithGap(P_import, 1, P_os, query_lower)
        \/ HasWithGap(P_import, 1, P_subprocess, query_lower)
        \/ HasLiteral(P_dunder_import, query_lower)
        \/ HasLiteral(P_dotdot_slash, query_lower)
        \/ HasLiteral(P_dotdot_backslash, query_lower)

Invalid(message) ==
    [is_valid |-> FALSE, error_message |-> Some(message), sanitized_input |-> None]

TooShortMessage == <<"Query must be at least ", "5", " characters long">>
TooLongMessage == <<"Query cannot exceed ", "1000", " characters">>

\* InputValidator.validate_query checking the lengths after sanitizing
validate_query_LengthAfterSanitize(raw) ==
    IF Len(raw) = 0 THEN Invalid(<<"Query cannot be empty">>)
    ELSE LET sanitized == sanitize_input(raw)
         IN  IF Len(sanitized) < min_query_length THEN Invalid(TooShortMessage)
             ELSE IF Len(sanitized) > max_query_length THEN Invalid(TooLongMessage)
             ELSE IF contains_suspicious_patterns(sanitized)
             THEN Invalid(<<"Query contains potentially harmful content">>)
             ELSE [is_valid |-> TRUE, error_message |-> None,
                   sanitized_input |-> Some(sanitized)]

\* InputValidator.validate_query, for a query that is a str
validate_query(raw) ==
    IF Len(raw) = 0 THEN Invalid(<<"Query cannot be empty">>)
    ELSE IF Len(raw) < min_query_length THEN Invalid(TooShortMessage)
    ELSE IF Len(raw) > max_query_length THEN Invalid(TooLongMessage)
    ELSE LET sanitized == sanitize_input(raw)
         IN  IF Strip(sanitized) = <<>>
             THEN Invalid(<<"Query contains only invalid characters">>)
             ELSE IF contains_suspicious_patterns(sanitized)
             THEN Invalid(<<"Query contains potentially harmful content">>)
             ELSE [is_valid |-> TRUE, error_message |-> None,
                   sanitized_input |-> Some(sanitized)]

\* a query of max_query_length characters
LongPiece == [i \in 1..max_query_length |-> "a"]

\* the pieces the queries of the model are made of
ValidationPieces ==
    { LongPiece, <<NUL>>,
      <<"h", "e", "l", "l", "o">>,
      <<"a">>,
      <<" ">>,
      <<"\t">>,
      <<"\\">>,
      <<"<", "s", "c", "r", "i", "p", "t", ">", "x", "<", "/", "S", "C", "R", "I", "P", "T", ">">>,
      <<"<", "S", "c", "r", "i", "p", "t", " ", "s", "r", "c", "=", "a", ">">>,
      <<"<", "/", "s", "c", "r", "i", "p", "t", ">">>,
      <<"J", "a", "v", "a", "S", "c", "r", "i", "p", "t", ":">>,
      <<"d", "a", "t", "a", ":", "t", "e", "x", "t", "/", "h", "t", "m", "l">>,
      <<"V", "B", "S", "c", "r", "i", "p", "t", ":">>,
      <<"o", "n", "l", "o", "a", "d", " ", "=">>,
      <<"o", "n", "e", "r", "r", "o", "r", "=">>,
      <<"o", "n", "c", "l", "i", "c", "k", "=">>,
      <<"e", "v", "a", "l", "(">>,
      <<"e", "x", "e", "c", " ", "(">>,
      <<"s", "y", "s", "t", "e", "m", "(">>,
      <<"i", "m", "p", "o", "r", "t", " ", "o", "s">>,
      <<"i", "m", "p", "o", "r", "t", "\t", "o", "s">>,
      <<"i", "m", "p", "o", "r", "t", " ", "s", "u", "b", "p", "r", "o", "c", "e", "s", "s">>,
      <<"_", "_", "i", "m", "p", "o", "r", "t", "_", "_">>,
      <<".", ".", "/">>,
      <<".", ".", "\\">> }

MaxValidationPieces == 2

ValidationQueries == TextsOf(ValidationPieces, MaxValidationPieces)

InitValidate ==
    /\ WorkflowInit
    /\ AgentIdle
    /\ RoutingIdle
    /\ SanitizeIdle
    /\ RagIdle
    /\ RoundTripIdle
    /\ ContextIdle
    /\ EmbedIdle
    /\ v_query \in ValidationQueries
    /\ v_pc = "call"
    /\ v_result = None

ValidateUnchanged ==
    UNCHANGED <<pc, both_pc, raw_query, query, validation_result, supervisor_response,
                specialist_response, individual_responses, final_response, error,
                metadata, it_response, result, visited, calls, raised, eval_args,
                eval_outcome, agent_vars, routing_vars, sanitize_vars, rag_vars, roundtrip_vars, context_vars, embed_vars>>

\* validator.validate_query(query) returns
validate_query_returns ==
    /\ v_pc = "call"
    /\ v_result' = Some(validate_query(v_query))
    /\ v_pc' = "done"
    /\ UNCHANGED v_query
    /\ ValidateUnchanged

NextValidate == validate_query_returns

SpecValidate == InitValidate /\ [][NextValidate]_vars

LengthMessages == {<<"Query cannot be empty">>, TooShortMessage, TooLongMessage}

\* C19: a query shorter than min_query_length or longer than max_query_length,
\* counted on the raw input, is rejected with the message of its length
\* (empty, too short, too long); no other query gets such a message, whatever
\* sanitizing would remove from it
C19_LengthCheckedOnRawInput ==
    v_pc = "done" =>
        LET r == Val(v_result)
            n == Len(v_query)
        IN  /\ (n < min_query_length \/ n > max_query_length) =>
                  /\ ~r.is_valid
                  /\ r.error_message =
                         Some(IF n = 0 THEN <<"Query cannot be empty">>
                              ELSE IF n < min_query_length THEN TooShortMessage
                              ELSE TooLongMessage)
            /\ (n >= min_query_length /\ n <= max_query_length) =>
                  (r.is_valid \/ Val(r.error_message) \notin LengthMessages)

\* a query of 1001 raw characters was rejected as too long although only 1000
\* of them survive sanitizing
C19_Witness ==
    /\ v_pc = "done"
    /\ v_query = LongPiece \o <<NUL>>
    /\ Len(sanitize_input(v_query)) = max_query_length
    /\ Val(v_result).error_message = Some(TooLongMessage)

\* C20: a query of admissible length that contains one of the patterns of
\* _contains_suspicious_patterns, in any letter case and with any text around
\* it, is rejected with the message about harmful content
C20_MaliciousPatternRejected ==
    (/\ v_pc = "done"
     /\ Len(v_query) >= min_query_length
     /\ Len(v_query) <= max_query_length
     /\ contains_suspicious_patterns(v_query)) =>
        /\ ~Val(v_result).is_valid
        /\ Val(v_result).error_message = Some(<<"Query contains potentially harmful content">>)

\* ---------------------------------------------------------------------------
\* InputValidator._sanitize_input applied to a text and then to its own result
\* (validation.py 84-95).
\* ---------------------------------------------------------------------------

\* the pieces the texts to sanitize are made of: allowed characters, blanks,
\* whitespace and characters outside allowed_characters, control characters
SanitizePieces ==
    { <<"h", "e", "l", "l", "o">>, <<"B">>, <<".">>, <<"<">>, <<" ">>, <<"\t">>,
      <<"\n">>, <<"\\">>, <<NUL>>, <<"\f">> }

MaxSanitizePieces == 3

InitSanitize ==
    /\ WorkflowInit
    /\ AgentIdle
    /\ RoutingIdle
    /\ ValidationIdle
    /\ RagIdle
    /\ RoundTripIdle
    /\ ContextIdle
    /\ EmbedIdle
    /\ s_query \in TextsOf(SanitizePieces, MaxSanitizePieces)
    /\ s_once = None
    /\ s_twice = None

SanitizeUnchanged ==
    UNCHANGED <<pc, both_pc, raw_query, query, validation_result, supervisor_response,
                specialist_response, individual_responses, final_response, error,
                metadata, it_response, result, visited, calls, raised, eval_args,
                eval_outcome, agent_vars, routing_vars, validation_vars, rag_vars, roundtrip_vars, context_vars, embed_vars>>

\* sanitized = self._sanitize_input(query)
sanitize_first ==
    /\ s_once = None
    /\ s_once' = Some(sanitize_input(s_query))
    /\ UNCHANGED <<s_query, s_twice>>
    /\ SanitizeUnchanged

\* the sanitized text is sanitized again
sanitize_second ==
    /\ s_once # None
    /\ s_twice = None
    /\ s_twice' = Some(sanitize_input(Val(s_once)))
    /\ UNCHANGED <<s_query, s_once>>
    /\ SanitizeUnchanged

NextSanitize ==
    \/ sanitize_first
    \/ sanitize_second

SpecSanitize == InitSanitize /\ [][NextSanitize]_vars

\* C21: sanitizing a sanitized text returns it unchanged, for every text; and
\* the sanitized_input of a valid query is that fixed point
C21_SanitizeIdempotent ==
    s_twice # None =>
        /\ Val(s_twice) = Val(s_once)
        /\ validate_query(s_query).is_valid =>
              /\ validate_query(s_query).sanitized_input = s_once
              /\ sanitize_input(Val(validate_query(s_query).sanitized_input)) = Val(s_once)

\* a valid query that sanitizing changed was sanitized twice
C21_Witness ==
    /\ s_twice # None
    /\ validate_query(s_query).is_valid
    /\ Val(s_once) # s_query
    /\ Val(s_twice) = Val(s_once)

\* ---------------------------------------------------------------------------
\* The similarity index of RAGDocumentSearch (rag_search.py): embeddings,
\* faiss.normalize_L2, IndexFlatIP.search and search_documents. A chunk is
\* named by its text; a vector is a tuple of integers; a vector of length 1
\* is written with length UnitLength.
\* ---------------------------------------------------------------------------

\* the dimension of the embeddings of the model (1536 for Titan)
EmbeddingDim == 2

\* the length that stands for 1.0 in a normalized vector
UnitLength == 5

ZeroVector == [i \in 1..EmbeddingDim |-> 0]

\* the chunk texts and the query texts of the model
ChunkTexts == {"c1", "c2", "c3", "old1"}
QueryTexts == {"q1", "q2"}

\* response_body['embedding'] of the Titan model for a text
Titan(text) ==
    CASE text = "c1" -> <<10, 0>>
      [] text = "c2" -> <<6, 8>>
      [] text = "c3" -> <<0, 5>>
      [] text = "old1" -> <<8, 6>>
      [] text = "q1" -> <<5, 0>>
      [] text = "q2" -> <<3, 4>>

\* the embedding a text gets: Titan's, or the dummy one when the backend failed
Embedding(text, backend) == IF backend = "ok" THEN Titan(text) ELSE ZeroVector

Dot(a, b) == a[1] * b[1] + a[2] * b[2]

\* the L2 norm of a vector of the model (all of them have an integer norm)
Norm(v) == CHOOSE n \in 0..(v[1] + v[2]) : n * n = Dot(v, v)

\* faiss.normalize_L2 on one row: a row of norm 0 is left as it is
normalize_L2(v) ==
    IF Norm(v) = 0 THEN v
    ELSE [i \in 1..EmbeddingDim |-> (v[i] * UnitLength) \div Norm(v)]

\* the rows _build_vector_store_from_chunks adds to the index
IndexRows(chunks, backend) ==
    [i \in 1..Len(chunks) |-> normalize_L2(Embedding(chunks[i], backend))]

\* the similarity IndexFlatIP reports for an index position without a row
NoSimilarity == -1000

\* IndexFlatIP.search(query, k): k pairs of similarity and position, best
\* first, filled with position -1 when the index has fewer than k rows
IndexSearch(rows, qvec, k) ==
    LET score(i) == Dot(rows[i], qvec)
        before(j, i) == score(j) > score(i) \/ (score(j) = score(i) /\ j < i)
        rank(i) == 1 + Cardinality({j \in 1..Len(rows) : before(j, i)})
    IN  [n \in 1..k |->
            IF n <= Len(rows)
            THEN LET i == CHOOSE i \in 1..Len(rows) : rank(i) = n
                 IN  [similarity |-> score(i), index |-> i]
            ELSE [similarity |-> NoSimilarity, index |-> -1]]

\* the body of search_documents after the guards: embed the query, search the
\* index, collect chunks[index] for every pair with index < len(chunks), each
\* chunk carrying the similarity_score written to it last
SearchResults(rows, chunks, qtext, backend, k) ==
    LET qvec == normalize_L2(Embedding(qtext, backend))
        found == IndexSearch(rows, qvec, k)
        \* chunks[index] of Python, where index -1 is the last chunk
        pos(n) == IF found[n].index = -1 THEN Len(chunks) ELSE found[n].index
        taken == SelectSeq([n \in 1..k |-> n], LAMBDA n : found[n].index <= Len(chunks))
        last(c) == CHOOSE n \in 1..Len(taken) :
                      /\ chunks[pos(taken[n])] = c
                      /\ \A m \in (n + 1)..Len(taken) : chunks[pos(taken[m])] # c
    IN  [n \in 1..Len(taken) |->
            LET c == chunks[pos(taken[n])]
            IN  [chunk |-> c, similarity_score |-> found[taken[last(c)]].similarity]]

\* ---------------------------------------------------------------------------
\* One RAGDocumentSearch engine used by several coroutines (rag_search.py):
\* _ensure_domain_initialized, refresh_vector_store and search_documents.
\* A coroutine runs without interruption up to its next suspension: the wait
\* for _initialization_lock, and the embedding calls (asyncio.sleep in
\* _get_batch_embeddings).
\* ---------------------------------------------------------------------------

Domains == {"finance", "it"}

\* the coroutines of the model and the operation each one runs
Tasks == {"ensure1", "ensure2", "refresh1", "search1"}

OpOf(t) ==
    IF t \in {"ensure1", "ensure2"} THEN "ensure"
    ELSE IF t = "refresh1" THEN "refresh" ELSE "search"

\* the outcomes of the embedding backend for one batch, and of writing the cache
BackendOutcomes == {"ok", "fail"}
SaveOutcomes == {"saved", "save_failed"}

\* cache_data as _save_*_vector_store pickles it
CacheData(rows, chunks) == [vector_store |-> rows, document_chunks |-> chunks]

\* the cache artifacts an engine can find on disk: none, one saved by an
\* earlier run, a file pickle.load cannot read (written here as a record with
\* the one field garbage), a pickled dict without the key 'document_chunks'
CacheFiles ==
    { None,
      Some(CacheData(IndexRows(<<"old1">>, "ok"), <<"old1">>)),
      Some([garbage |-> TRUE]),
      Some([vector_store |-> IndexRows(<<"old1">>, "ok")]) }

\* the source directories: no supported file, one file without text, one file
\* yielding two chunks
DocDirs == { <<>>, << <<>> >>, << <<"c1", "c2">> >> }

\* the cache and the directory of the it domain are one of two pairs: no
\* cache and a file with chunks, or a saved cache and no file (the finance
\* domain, whose code is the same, takes every pair)
ItEnvironments ==
    { <<None, << <<"c1", "c2">> >> >>,
      <<Some(CacheData(IndexRows(<<"old1">>, "ok"), <<"old1">>)), <<>> >> }

\* all_chunks: the chunks of every file, in order
RECURSIVE AllChunks(_)
AllChunks(files) ==
    IF files = <<>> THEN <<>> ELSE Head(files) \o AllChunks(Tail(files))

NoLocals == [cur |-> "", chunks |-> <<>>, rest |-> <<>>, rows |-> <<>>, q |-> "", k |-> 0]

\* pickle.load succeeds and both keys are there
CacheLoads(c) ==
    /\ c # None
    /\ DOMAIN Val(c) = {"vector_store", "document_chunks"}

\* pickle.load succeeds, 'vector_store' is read and assigned, and the lookup
\* of 'document_chunks' raises
CacheLoadsHalf(c) ==
    /\ c # None
    /\ DOMAIN Val(c) = {"vector_store"}

InitRag ==
    /\ WorkflowInit
    /\ AgentIdle
    /\ RoutingIdle
    /\ ValidationIdle
    /\ SanitizeIdle
    /\ RoundTripIdle
    /\ ContextIdle
    /\ EmbedIdle
    /\ cache_file \in [Domains -> CacheFiles]
    /\ docs_dir \in [Domains -> DocDirs]
    /\ <<cache_file["it"], docs_dir["it"]>> \in ItEnvironments
    /\ vector_store = [d \in Domains |-> None]
    /\ doc_chunks = [d \in Domains |-> <<>>]
    /\ initialized = [d \in Domains |-> FALSE]
    /\ initialization_lock = None
    /\ t_pc = [t \in Tasks |-> "idle"]
    /\ t_arg = [t \in Tasks |-> ""]
    /\ t_local = [t \in Tasks |-> NoLocals]
    /\ t_result = [t \in Tasks |-> None]
    /\ rag_log = [d \in Domains |-> <<>>]

RagUnchanged ==
    UNCHANGED <<pc, both_pc, raw_query, query, validation_result, supervisor_response,
                specialist_response, individual_responses, final_response, error,
                metadata, it_response, result, visited, calls, raised, eval_args,
                eval_outcome, agent_vars, routing_vars, validation_vars, sanitize_vars, roundtrip_vars, context_vars, embed_vars>>

\* _ensure_domain_initialized with a load failure that is not followed by a build
ensure_locked_NoFallback(t, d) ==
    LET c == cache_file[d]
        all_chunks == AllChunks(docs_dir[d])
    IN  IF initialized[d]
        THEN /\ t_pc' = [t_pc EXCEPT ![t] = "done"]
             /\ UNCHANGED <<vector_store, doc_chunks, initialized,
                            initialization_lock, t_local, rag_log>>
        ELSE IF CacheLoads(c)
        THEN /\ vector_store' = [vector_store EXCEPT ![d] = Some(Val(c).vector_store)]
             /\ doc_chunks' = [doc_chunks EXCEPT ![d] = Val(c).document_chunks]
             /\ initialized' = [initialized EXCEPT ![d] = TRUE]
             /\ rag_log' = [rag_log EXCEPT ![d] = @ \o << <<"init", t>>, <<"load_ok", t>> >>]
             /\ t_pc' = [t_pc EXCEPT ![t] = "done"]
             /\ UNCHANGED <<initialization_lock, t_local>>
        ELSE /\ vector_store' =
                  IF CacheLoadsHalf(c)
                  THEN [vector_store EXCEPT ![d] = Some(Val(c).vector_store)]
                  ELSE vector_store
             /\ UNCHANGED doc_chunks
             /\ LET tried == << <<"init", t>> >> \o
                             (IF c # None THEN << <<"load_failed", t>> >> ELSE <<>>)
                IN  IF all_chunks = <<>> \/ c # None
                    THEN /\ initialized' = [initialized EXCEPT ![d] = TRUE]
                         /\ rag_log' = [rag_log EXCEPT ![d] = @ \o tried \o << <<"build_empty", t>> >>]
                         /\ t_pc' = [t_pc EXCEPT ![t] = "done"]
                         /\ UNCHANGED <<initialization_lock, t_local>>
                    ELSE /\ initialization_lock' = Some(t)
                         /\ rag_log' = [rag_log EXCEPT ![d] = @ \o tried \o << <<"build_started", t>> >>]
                         /\ t_pc' = [t_pc EXCEPT ![t] = "embedding"]
                         /\ t_local' = [t_local EXCEPT ![t] =
                                           [NoLocals EXCEPT !.cur = d, !.chunks = all_chunks]]
                         /\ UNCHANGED initialized

\* _ensure_domain_initialized inside `async with`, up to its first suspension:
\* the flag is tested, and when it is not set _initialize_*_vector_store
\* runs: the cache is loaded when it exists, a failed load falls back to the
\* build, and the build returns at once when no file yields a chunk
ensure_locked(t, d) ==
    LET c == cache_file[d]
        all_chunks == AllChunks(docs_dir[d])
    IN  IF initialized[d]
        THEN /\ t_pc' = [t_pc EXCEPT ![t] = "done"]
             /\ UNCHANGED <<vector_store, doc_chunks, initialized,
                            initialization_lock, t_local, rag_log>>
        ELSE IF CacheLoads(c)
        THEN /\ vector_store' = [vector_store EXCEPT ![d] = Some(Val(c).vector_store)]
             /\ doc_chunks' = [doc_chunks EXCEPT ![d] = Val(c).document_chunks]
             /\ initialized' = [initialized EXCEPT ![d] = TRUE]
             /\ rag_log' = [rag_log EXCEPT ![d] = @ \o << <<"init", t>>, <<"load_ok", t>> >>]
             /\ t_pc' = [t_pc EXCEPT ![t] = "done"]
             /\ UNCHANGED <<initialization_lock, t_local>>
        ELSE /\ vector_store' =
                  IF CacheLoadsHalf(c)
                  THEN [vector_store EXCEPT ![d] = Some(Val(c).vector_store)]
                  ELSE vector_store
             /\ UNCHANGED doc_chunks
             /\ LET tried == << <<"init", t>> >> \o
                             (IF c # None THEN << <<"load_failed", t>> >> ELSE <<>>)
                IN  IF all_chunks = <<>>
                    THEN /\ initialized' = [initialized EXCEPT ![d] = TRUE]
                         /\ rag_log' = [rag_log EXCEPT ![d] = @ \o tried \o << <<"build_empty", t>> >>]
                         /\ t_pc' = [t_pc EXCEPT ![t] = "done"]
                         /\ UNCHANGED <<initialization_lock, t_local>>
                    ELSE /\ initialization_lock' = Some(t)
                         /\ rag_log' = [rag_log EXCEPT ![d] = @ \o tried \o << <<"build_started", t>> >>]
                         /\ t_pc' = [t_pc EXCEPT ![t] = "embedding"]
                         /\ t_local' = [t_local EXCEPT ![t] =
                                           [NoLocals EXCEPT !.cur = d, !.chunks = all_chunks]]
                         /\ UNCHANGED initialized

\* _ensure_domain_initialized without `async with self._initialization_lock`
ensure_call_NoLock(t, d) ==
    /\ OpOf(t) = "ensure"
    /\ t_pc[t] = "idle"
    /\ t_arg' = [t_arg EXCEPT ![t] = d]
    /\ ensure_locked(t, d)
    /\ UNCHANGED <<cache_file, docs_dir, t_result>>
    /\ RagUnchanged

\* _ensure_domain_initialized(domain) is called: it waits when the lock is
\* held (the history records the wait), and goes on at once when it is free
ensure_call(t, d) ==
    /\ OpOf(t) = "ensure"
    /\ t_pc[t] = "idle"
    /\ t_arg' = [t_arg EXCEPT ![t] = d]
    /\ IF initialization_lock = None
       THEN ensure_locked(t, d)
       ELSE /\ t_pc' = [t_pc EXCEPT ![t] = "acquire"]
            /\ rag_log' = [rag_log EXCEPT ![d] = Append(@, <<"waited", t>>)]
            /\ UNCHANGED <<vector_store, doc_chunks, initialized,
                           initialization_lock, t_local>>
    /\ UNCHANGED <<cache_file, docs_dir, t_result>>
    /\ RagUnchanged

\* a waiting caller gets the lock
ensure_enter(t) ==
    /\ OpOf(t) = "ensure"
    /\ t_pc[t] = "acquire"
    /\ initialization_lock = None
    /\ ensure_locked(t, t_arg[t])
    /\ UNCHANGED <<cache_file, docs_dir, t_arg, t_result>>
    /\ RagUnchanged

\* the cache file after _save_*_vector_store
Saved(cache, d, rows, chunks, save) ==
    IF save = "saved" THEN [cache EXCEPT ![d] = Some(CacheData(rows, chunks))] ELSE cache

\* _ensure_domain_initialized leaving the flag as it is after a build
ensure_built_FlagNotSet(t, backend, save) ==
    /\ OpOf(t) = "ensure"
    /\ t_pc[t] = "embedding"
    /\ LET d == t_local[t].cur
           chunks == t_local[t].chunks
           rows == IndexRows(chunks, backend)
       IN  /\ vector_store' = [vector_store EXCEPT ![d] = Some(rows)]
           /\ doc_chunks' = [doc_chunks EXCEPT ![d] = chunks]
           /\ cache_file' = Saved(cache_file, d, rows, chunks, save)
           /\ UNCHANGED initialized
           /\ rag_log' = [rag_log EXCEPT ![d] = Append(@, <<"build_done", t>>)]
    /\ initialization_lock' = None
    /\ t_pc' = [t_pc EXCEPT ![t] = "done"]
    /\ t_local' = [t_local EXCEPT ![t] = NoLocals]
    /\ UNCHANGED <<docs_dir, t_arg, t_result>>
    /\ RagUnchanged

\* the embeddings are back: _build_vector_store_from_chunks stores index and
\* chunks, saves the cache; the flag is set and the lock released
ensure_built(t, backend, save) ==
    /\ OpOf(t) = "ensure"
    /\ t_pc[t] = "embedding"
    /\ LET d == t_local[t].cur
           chunks == t_local[t].chunks
           rows == IndexRows(chunks, backend)
       IN  /\ vector_store' = [vector_store EXCEPT ![d] = Some(rows)]
           /\ doc_chunks' = [doc_chunks EXCEPT ![d] = chunks]
           /\ cache_file' = Saved(cache_file, d, rows, chunks, save)
           /\ initialized' = [initialized EXCEPT ![d] = TRUE]
           /\ rag_log' = [rag_log EXCEPT ![d] = Append(@, <<"build_done", t>>)]
    /\ initialization_lock' = None
    /\ t_pc' = [t_pc EXCEPT ![t] = "done"]
    /\ t_local' = [t_local EXCEPT ![t] = NoLocals]
    /\ UNCHANGED <<docs_dir, t_arg, t_result>>
    /\ RagUnchanged

\* the domains refresh_vector_store(domain) rebuilds, in order
RefreshDomains(arg) ==
    IF arg = "both" THEN <<"finance", "it">>
    ELSE IF arg \in Domains THEN <<arg>> ELSE <<>>

\* refresh_vector_store up to its next suspension: for each domain in turn
\* the cache file is removed and the build started; a build that finds no
\* chunk returns at once and the next domain follows
RECURSIVE RefreshAdvance(_, _, _)
RefreshAdvance(ds, cache, docs) ==
    IF ds = <<>>
    THEN [cache |-> cache, cur |-> "", chunks |-> <<>>, rest |-> <<>>, empty |-> {}]
    ELSE LET d == Head(ds)
             unlinked == [cache EXCEPT ![d] = None]
             all_chunks == AllChunks(docs[d])
         IN  IF all_chunks # <<>>
             THEN [cache |-> unlinked, cur |-> d, chunks |-> all_chunks,
                   rest |-> Tail(ds), empty |-> {}]
             ELSE LET r == RefreshAdvance(Tail(ds), unlinked, docs)
                  IN  [r EXCEPT !.empty = @ \cup {d}]

\* the log after the builds RefreshAdvance went through
RefreshLogged(log, t, r) ==
    [d \in Domains |->
        log[d] \o (IF d \in r.empty THEN << <<"build_empty", t>> >> ELSE <<>>)
               \o (IF d = r.cur THEN << <<"build_started", t>> >> ELSE <<>>)]

\* refresh_vector_store(domain) is called
refresh_call(t, arg) ==
    /\ OpOf(t) = "refresh"
    /\ t_pc[t] = "idle"
    /\ LET r == RefreshAdvance(RefreshDomains(arg), cache_file, docs_dir)
       IN  /\ cache_file' = r.cache
           /\ rag_log' = RefreshLogged(rag_log, t, r)
           /\ t_pc' = [t_pc EXCEPT ![t] = IF r.cur = "" THEN "done" ELSE "embedding"]
           /\ t_local' = [t_local EXCEPT ![t] =
                             [NoLocals EXCEPT !.cur = r.cur, !.chunks = r.chunks, !.rest = r.rest]]
    /\ t_arg' = [t_arg EXCEPT ![t] = arg]
    /\ UNCHANGED <<docs_dir, vector_store, doc_chunks, initialized,
                   initialization_lock, t_result>>
    /\ RagUnchanged

\* the embeddings of a refresh build are back: index and chunks are stored,
\* the cache saved, and the refresh goes on with its next domain
refresh_built(t, backend, save) ==
    /\ OpOf(t) = "refresh"
    /\ t_pc[t] = "embedding"
    /\ LET d == t_local[t].cur
           chunks == t_local[t].chunks
           rows == IndexRows(chunks, backend)
           r == RefreshAdvance(t_local[t].rest,
                               Saved(cache_file, d, rows, chunks, save), docs_dir)
       IN  /\ vector_store' = [vector_store EXCEPT ![d] = Some(rows)]
           /\ doc_chunks' = [doc_chunks EXCEPT ![d] = chunks]
           /\ cache_file' = r.cache
           /\ rag_log' = RefreshLogged(
                             [rag_log EXCEPT ![d] = Append(@, <<"build_done", t>>)], t, r)
           /\ t_pc' = [t_pc EXCEPT ![t] = IF r.cur = "" THEN "done" ELSE "embedding"]
           /\ t_local' = [t_local EXCEPT ![t] =
                             [NoLocals EXCEPT !.cur = r.cur, !.chunks = r.chunks, !.rest = r.rest]]
    /\ UNCHANGED <<docs_dir, initialized, initialization_lock, t_arg, t_result>>
    /\ RagUnchanged

\* the query, the domain arguments and the top_k of the searches followed here:
\* a supported and an unsupported domain name, and the top_k RAGSearchTool
\* passes
RagQueries == {"q1"}
SearchDomains == {"finance", "hr"}
TopKs == {5}

\* search_documents without its guard on the domain name
search_call_UnsupportedRaises(t, q, d, k) ==
    /\ OpOf(t) = "search"
    /\ t_pc[t] = "idle"
    /\ t_arg' = [t_arg EXCEPT ![t] = d]
    /\ IF d \notin Domains
       THEN /\ t_pc' = [t_pc EXCEPT ![t] = "raised"]
            /\ UNCHANGED <<t_result, t_local>>
       ELSE IF vector_store[d] = None \/ doc_chunks[d] = <<>>
       THEN /\ t_result' = [t_result EXCEPT ![t] = Some(<<>>)]
            /\ t_pc' = [t_pc EXCEPT ![t] = "done"]
            /\ t_local' = [t_local EXCEPT ![t] = NoLocals]
       ELSE /\ t_pc' = [t_pc EXCEPT ![t] = "embedding"]
            /\ t_local' = [t_local EXCEPT ![t] =
                              [NoLocals EXCEPT !.cur = d, !.rows = Val(vector_store[d]),
                                               !.chunks = doc_chunks[d], !.q = q, !.k = k]]
            /\ UNCHANGED t_result
    /\ UNCHANGED <<cache_file, docs_dir, vector_store, doc_chunks, initialized,
                   initialization_lock, rag_log>>
    /\ RagUnchanged

\* search_documents(query, domain, top_k) is called: an unsupported domain, a
\* missing index or an empty chunk list return [] at once; otherwise index
\* and chunks are kept in locals and the query is sent to the embedding backend
search_call(t, q, d, k) ==
    /\ OpOf(t) = "search"
    /\ t_pc[t] = "idle"
    /\ t_arg' = [t_arg EXCEPT ![t] = d]
    /\ IF d \notin Domains
       THEN /\ t_result' = [t_result EXCEPT ![t] = Some(<<>>)]
            /\ t_pc' = [t_pc EXCEPT ![t] = "done"]
            /\ t_local' = [t_local EXCEPT ![t] = NoLocals]
       ELSE IF vector_store[d] = None \/ doc_chunks[d] = <<>>
       THEN /\ t_result' = [t_result EXCEPT ![t] = Some(<<>>)]
            /\ t_pc' = [t_pc EXCEPT ![t] = "done"]
            /\ t_local' = [t_local EXCEPT ![t] = NoLocals]
       ELSE /\ t_pc' = [t_pc EXCEPT ![t] = "embedding"]
            /\ t_local' = [t_local EXCEPT ![t] =
                              [NoLocals EXCEPT !.cur = d, !.rows = Val(vector_store[d]),
                                               !.chunks = doc_chunks[d], !.q = q, !.k = k]]
            /\ UNCHANGED t_result
    /\ UNCHANGED <<cache_file, docs_dir, vector_store, doc_chunks, initialized,
                   initialization_lock, rag_log>>
    /\ RagUnchanged

\* the query embedding is back: the index kept in the locals is searched
search_embedded(t, backend) ==
    /\ OpOf(t) = "search"
    /\ t_pc[t] = "embedding"
    /\ t_result' = [t_result EXCEPT ![t] =
                       Some(SearchResults(t_local[t].rows, t_local[t].chunks,
                                          t_local[t].q, backend, t_local[t].k))]
    /\ t_pc' = [t_pc EXCEPT ![t] = "done"]
    /\ t_local' = [t_local EXCEPT ![t] = NoLocals]
    /\ UNCHANGED <<cache_file, docs_dir, vector_store, doc_chunks, initialized,
                   initialization_lock, t_arg, rag_log>>
    /\ RagUnchanged

\* the cache file a build writes is not read again by the engine that wrote
\* it, so the builds followed here save it; SpecRoundTrip follows both outcomes
\* of the save
NextRag ==
    \/ \E t \in Tasks, d \in Domains : ensure_call(t, d)
    \/ \E t \in Tasks : ensure_enter(t)
    \/ \E t \in Tasks, b \in BackendOutcomes : ensure_built(t, b, "saved")
    \/ \E t \in Tasks, arg \in Domains \cup {"both"} : refresh_call(t, arg)
    \/ \E t \in Tasks, b \in BackendOutcomes : refresh_built(t, b, "saved")
    \/ \E t \in Tasks, q \in RagQueries, d \in SearchDomains, k \in TopKs : search_call(t, q, d, k)
    \/ \E t \in Tasks, b \in BackendOutcomes : search_embedded(t, b)

SpecRag == InitRag /\ [][NextRag]_vars

\* ---- properties of the index lifecycle ----

\* the tasks of kind op whose build of domain d is waiting for its embeddings
Building(op, d) ==
    {t \in Tasks : OpOf(t) = op /\ t_pc[t] = "embedding" /\ t_local[t].cur = d}

\* the number of entries of kind ev in the history of domain d
EventCount(ev, d) ==
    Cardinality({i \in 1..Len(rag_log[d]) : rag_log[d][i][1] = ev})

\* the task t is recorded with the event ev in the history of domain d
Logged(ev, t, d) ==
    \E i \in 1..Len(rag_log[d]) : rag_log[d][i] = <<ev, t>>

\* C22: whatever the interleaving of the callers of _ensure_domain_initialized,
\* at most one load/build of a domain started by them is in progress at any
\* time, at most one is ever started, and a caller has returned only when
\* that load/build is over (the flag is set and no such build is in progress)
C22_SingleFlight ==
    \A d \in Domains :
        /\ Cardinality(Building("ensure", d)) <= 1
        /\ EventCount("init", d) <= 1
        /\ \A t \in Tasks :
               (OpOf(t) = "ensure" /\ t_pc[t] = "done" /\ t_arg[t] = d)
                   => /\ initialized[d]
                      /\ Building("ensure", d) = {}
                      /\ EventCount("init", d) = 1

\* two callers for the same domain: the second one waited for the build of
\* the first one, and both have returned
C22_Witness ==
    \E d \in Domains :
        /\ t_pc["ensure1"] = "done" /\ t_arg["ensure1"] = d
        /\ t_pc["ensure2"] = "done" /\ t_arg["ensure2"] = d
        /\ Logged("build_done", "ensure1", d)
        /\ Logged("waited", "ensure2", d)

\* C23: no state is reachable in which a build of a domain started by
\* refresh_vector_store and a build of the same domain started by
\* _ensure_domain_initialized are both in progress
C23_RefreshSerializedWithInit ==
    \A d \in Domains :
        ~(Building("refresh", d) # {} /\ Building("ensure", d) # {})

\* C24: a search on a supported domain triggers the load or build of a domain
\* that is not initialized yet: once search_documents has gone past its
\* entry, the domain it searches is initialized
C24_SearchInitializesDomain ==
    \A t \in Tasks :
        (OpOf(t) = "search" /\ t_pc[t] \in {"embedding", "done"} /\ t_arg[t] \in Domains)
            => initialized[t_arg[t]]

\* C25: in every state of a domain the index has as many rows as the chunk
\* list has chunks and row i is the embedding of chunk i as the backend
\* returned it (the zero vector when the backend failed); a domain without
\* an index has no chunks
C25_IndexMatchesChunks ==
    \A d \in Domains :
        IF vector_store[d] = None
        THEN doc_chunks[d] = <<>>
        ELSE LET rows == Val(vector_store[d])
             IN  /\ Len(rows) = Len(doc_chunks[d])
                 /\ \A i \in 1..Len(rows) :
                        rows[i] \in {normalize_L2(Titan(doc_chunks[d][i])), ZeroVector}

\* C26: a call of search_documents on an unsupported domain, on a domain
\* without an index or on a domain whose chunk list is empty returns at once
\* with the empty list, whatever the state and the query; and no search
\* ever ends by raising
C26_SearchOnMissingIndexReturnsEmpty ==
    [][\A t \in Tasks :
          /\ t_pc'[t] # "raised"
          /\ (OpOf(t) = "search" /\ t_pc[t] = "idle" /\ t_pc'[t] # "idle")
                => LET d == t_arg'[t]
                       missing == IF d \in Domains
                                  THEN vector_store[d] = None \/ doc_chunks[d] = <<>>
                                  ELSE TRUE
                   IN  missing => (t_pc'[t] = "done" /\ t_result'[t] = Some(<<>>))]_vars

\* a search on the finance domain has returned the empty list while the
\* domain has no index
C26_Witness ==
    /\ t_pc["search1"] = "done"
    /\ t_arg["search1"] = "finance"
    /\ vector_store["finance"] = None
    /\ t_result["search1"] = Some(<<>>)

\* the last build of domain d that has ended (or was found empty) found no chunk
LastBuildEmpty(d) ==
    LET ends == {i \in 1..Len(rag_log[d]) :
                    rag_log[d][i][1] \in {"build_empty", "build_done", "load_ok"}}
    IN  /\ ends # {}
        /\ rag_log[d][CHOOSE i \in ends : \A j \in ends : j <= i][1] = "build_empty"

\* C27: when the last build of a domain (by initialization or by refresh,
\* from any earlier state of the domain) found no source file or no text, and
\* no build of the domain is in progress, the domain has no index or no
\* chunks, so that a search on it returns the empty list
C27_EmptyBuildLeavesEmptyIndex ==
    \A d \in Domains :
        (LastBuildEmpty(d) /\ Building("ensure", d) = {} /\ Building("refresh", d) = {})
            => (vector_store[d] = None \/ doc_chunks[d] = <<>>)

\* ---- round trip of an index through its cache file ----

\* the longest chunk list of a round trip, and the chunk lists: the chunks of
\* a list are distinct objects
MaxIndexChunks == 3
IndexedChunkLists ==
    {s \in UNION {[1..n -> ChunkTexts] : n \in 1..MaxIndexChunks} :
        \A i, j \in 1..Len(s) : s[i] = s[j] => i = j}

\* the top_k values of the searches of a round trip
RoundTripTopKs == {1, 2, 5}

\* an engine after __init__
FreshEngine == [vector_store |-> None, chunks |-> <<>>]

\* search_documents on the engine e
EngineSearch(e, qtext, backend, k) ==
    IF e.vector_store = None \/ e.chunks = <<>>
    THEN <<>>
    ELSE SearchResults(Val(e.vector_store), e.chunks, qtext, backend, k)

InitRoundTrip ==
    /\ WorkflowInit
    /\ AgentIdle
    /\ RoutingIdle
    /\ ValidationIdle
    /\ SanitizeIdle
    /\ RagIdle
    /\ ContextIdle
    /\ EmbedIdle
    /\ rt_pc = "start"
    /\ rt_domain \in Domains
    /\ rt_docs \in IndexedChunkLists
    /\ rt_built = FreshEngine
    /\ rt_file = [d \in Domains |-> None]
    /\ rt_loaded = FreshEngine
    /\ rt_results = None

RoundTripUnchanged ==
    UNCHANGED <<pc, both_pc, raw_query, query, validation_result, supervisor_response,
                specialist_response, individual_responses, final_response, error,
                metadata, it_response, result, visited, calls, raised, eval_args,
                eval_outcome, agent_vars, routing_vars, validation_vars, sanitize_vars,
                rag_vars, context_vars, embed_vars>>

\* _build_vector_store_from_chunks up to the save: the embeddings of the
\* chunks become the rows of the index, index and chunks are stored
rt_build(backend) ==
    /\ rt_pc = "start"
    /\ rt_built' = [vector_store |-> Some(IndexRows(rt_docs, backend)), chunks |-> rt_docs]
    /\ rt_pc' = "built"
    /\ UNCHANGED <<rt_domain, rt_docs, rt_file, rt_loaded, rt_results>>
    /\ RoundTripUnchanged

\* _save_*_vector_store: index and chunks of the engine are pickled
rt_save(save) ==
    /\ rt_pc = "built"
    /\ rt_file' = Saved(rt_file, rt_domain, Val(rt_built.vector_store), rt_built.chunks, save)
    /\ rt_pc' = "saved"
    /\ UNCHANGED <<rt_domain, rt_docs, rt_built, rt_loaded, rt_results>>
    /\ RoundTripUnchanged

\* _load_*_vector_store keeping the chunk list without its last chunk
rt_load_DropsLastChunk(backend) ==
    /\ rt_pc = "saved"
    /\ LET c == rt_file[rt_domain]
       IN  rt_loaded' =
               IF CacheLoads(c)
               THEN [vector_store |-> Some(Val(c).vector_store),
                     chunks |-> SubSeq(Val(c).document_chunks, 1,
                                       Len(Val(c).document_chunks) - 1)]
               ELSE [vector_store |-> Some(IndexRows(rt_docs, backend)), chunks |-> rt_docs]
    /\ rt_pc' = "loaded"
    /\ UNCHANGED <<rt_domain, rt_docs, rt_built, rt_file, rt_results>>
    /\ RoundTripUnchanged

\* _ensure_domain_initialized in a fresh engine: the cache file is loaded
\* when it exists, and the index is built from the source files otherwise
rt_load(backend) ==
    /\ rt_pc = "saved"
    /\ LET c == rt_file[rt_domain]
       IN  rt_loaded' =
               IF CacheLoads(c)
               THEN [vector_store |-> Some(Val(c).vector_store),
                     chunks |-> Val(c).document_chunks]
               ELSE [vector_store |-> Some(IndexRows(rt_docs, backend)), chunks |-> rt_docs]
    /\ rt_pc' = "loaded"
    /\ UNCHANGED <<rt_domain, rt_docs, rt_built, rt_file, rt_results>>
    /\ RoundTripUnchanged

\* the same query is searched in both engines
rt_search(q, k, backend) ==
    /\ rt_pc = "loaded"
    /\ rt_results' = Some([built |-> EngineSearch(rt_built, q, backend, k),
                           loaded |-> EngineSearch(rt_loaded, q, backend, k),
                           q |-> q, k |-> k])
    /\ rt_pc' = "searched"
    /\ UNCHANGED <<rt_domain, rt_docs, rt_built, rt_file, rt_loaded>>
    /\ RoundTripUnchanged

NextRoundTrip ==
    \/ \E b \in BackendOutcomes : rt_build(b)
    \/ \E s \in SaveOutcomes : rt_save(s)
    \/ \E b \in BackendOutcomes : rt_load(b)
    \/ \E q \in QueryTexts, k \in RoundTripTopKs, b \in BackendOutcomes : rt_search(q, k, b)

SpecRoundTrip == InitRoundTrip /\ [][NextRoundTrip]_vars

SpecialistResponsesOfRun ==
    (IF IsSet(individual_responses) THEN Val(individual_responses) ELSE <<>>)
      \o (IF IsSet(it_response) THEN <<Val(it_response)>> ELSE <<>>)
      \o (IF IsSet(specialist_response) THEN <<Val(specialist_response)>> ELSE <<>>)

\* something other than a tool failed in this run: an exception was raised in
\* a node, the validator rejected the query, the router failed, or the LLM
\* call (or the body) of a specialist failed
NonToolFailure ==
    \/ raised # <<>>
    \/ ~(IsSet(validation_result) /\ Val(validation_result).is_valid)
    \/ ~(IsSet(supervisor_response) /\ Val(supervisor_response).success)
    \/ \E i \in 1..Len(SpecialistResponsesOfRun) :
           /\ "error_type" \in DOMAIN SpecialistResponsesOfRun[i].metadata
           /\ SpecialistResponsesOfRun[i].metadata["error_type"]
                  \in {"LLM_ERROR", "UNEXPECTED_ERROR"}

\* a tool call of this run failed
SomeToolFailed ==
    \E i \in 1..Len(SpecialistResponsesOfRun) :
        \E j \in 1..Len(SpecialistResponsesOfRun[i].tool_calls) :
            ~SpecialistResponsesOfRun[i].tool_calls[j].success

\* C29: failures of rag_search and web_search alone never set the workflow
\* error: when validation, routing and the specialists' LLM calls succeeded
\* and nothing was raised, process_query returns success = TRUE with error
\* unset whatever the outcomes of the tools, and every specialist response
\* carries one tool_calls entry per tool
C29_ToolFailuresNeverFailTheRun ==
    (pc = "returned" /\ ~NonToolFailure)
        => /\ Val(result).success
           /\ Val(result).error = None
           /\ \A i \in 1..Len(SpecialistResponsesOfRun) :
                  Len(SpecialistResponsesOfRun[i].tool_calls) >= 2

\* a run returned success although a tool call failed
C29_Witness ==
    /\ pc = "returned"
    /\ ~NonToolFailure
    /\ SomeToolFailed
    /\ Val(result).success

\* the names of the specialists whose responses were handed to the evaluator
SpecialistNamesOfRun ==
    [i \in 1..Len(Val(eval_args).specialist_responses) |->
        Val(eval_args).specialist_responses[i].agent_name]

\* C30: whenever the specialist stage succeeded and _format_response did not
\* raise, the final metadata holds the name of every specialist that ran in
\* specialist_agents, the routing decision, and the number of tool calls in
\* tools_used, whether the evaluation succeeded or fell back
C30_MetadataNamesSpecialists ==
    (pc \in {"END", "returned"} /\ raised = <<>> /\ IsSet(eval_outcome))
        => /\ metadata["specialist_agents"] = SpecialistNamesOfRun
           /\ metadata["routing_decision"] = Val(supervisor_response).routing_decision
           /\ metadata["tools_used"] = Len(AllToolCalls(Val(eval_args).specialist_responses))

\* ---- properties of the routing parse: the standalone-word search ----

\* the characters c and ch are the same letter, letter case aside, or the
\* same character
SameLetter(c, ch) ==
    \/ c = ch
    \/ \E u \in 1..26 : {c, ch} \subseteq {LowerLetters[u], UpperLetters[u]}

\* word occurs in text in any letter case with no letter, digit or underscore
\* right before it or right after it
StandsAlone(word, text) ==
    \E i \in 1..Len(text) :
        /\ i + Len(word) - 1 <= Len(text)
        /\ \A k \in 1..Len(word) : SameLetter(word[k], text[i + k - 1])
        /\ (i = 1 \/ ~IsWordChar(text[i - 1]))
        /\ (i + Len(word) = Len(text) + 1 \/ ~IsWordChar(text[i + Len(word)]))

FirstTokenIsLabel(text) ==
    \E w \in {W_finance, W_it, W_both, W_unclear} : FirstTokenIs(w, text)

\* C31: when the first token of the LLM response is none of the four labels,
\* the decision is the first of Finance, IT, Both, Unclear that stands alone
\* in the response in any letter case, and Unclear when none of them does
C31_FallbackPriority ==
    (r_pc = "done" /\ Val(r_llm).kind = "text" /\ ~FirstTokenIsLabel(Val(r_llm).text)) =>
        LET text == Val(r_llm).text
            decision == Val(r_response).routing_decision
        IN  decision =
                IF StandsAlone(W_finance, text) THEN "Finance"
                ELSE IF StandsAlone(W_it, text) THEN "IT"
                ELSE IF StandsAlone(W_both, text) THEN "Both"
                ELSE "Unclear"

\* "it-Finance": the first token is no label, IT and Finance both stand
\* alone in it, and the decision is Finance
C31_Witness ==
    /\ r_pc = "done"
    /\ Val(r_llm).kind = "text"
    /\ Val(r_llm).text = <<"i", "t", "-", "F", "i", "n", "a", "n", "c", "e">>
    /\ ~FirstTokenIsLabel(Val(r_llm).text)
    /\ Val(r_response).routing_decision = "Finance"

\* C32: the evaluator is called with the sanitized query and the router's
\* decision; for a Both routing with exactly the two individual specialist
\* responses, IT first and Finance second, and not with the combined
\* response; for an IT or Finance routing with that one specialist's response
C32_EvaluatorSeesIndividualResponses ==
    IsSet(eval_args) =>
        LET a == Val(eval_args)
            d == Val(supervisor_response).routing_decision
            names == [i \in 1..Len(a.specialist_responses) |->
                         a.specialist_responses[i].agent_name]
        IN  /\ a.routing_decision = d
            /\ a.original_query = Val(Val(validation_result).sanitized_input)
            /\ d = "Both" => /\ names = <<"IT Agent", "Finance Agent">>
                             /\ a.specialist_responses = Val(individual_responses)
                             /\ a.specialist_responses[1] = Val(it_response)
            /\ d = "IT" => names = <<"IT Agent">>
            /\ d = "Finance" => names = <<"Finance Agent">>
            /\ d \in {"Both", "IT", "Finance"}

\* the evaluator was called for a Both routing
C32_Witness ==
    /\ IsSet(eval_args)
    /\ Val(supervisor_response).routing_decision = "Both"
    /\ Len(Val(eval_args).specialist_responses) = 2
    /\ Val(specialist_response).agent_name = "IT & Finance Agents"

\* the response evaluate_response returned to _format_response in this run
EvaluatedResponseOfRun ==
    evaluate_response(Val(eval_args).original_query, Val(eval_args).specialist_responses,
                      Val(eval_args).routing_decision, Val(eval_outcome))

\* C33: when the evaluation succeeded, the response it returns carries the
\* tool_calls of every specialist, concatenated in specialist order,
\* total_tools_used is their number, original_specialists lists the
\* specialists' names in order, evaluated and evaluation_success are true;
\* and the final metadata reports that number and these flags
C33_SuccessfulEvaluationMetadata ==
    (IsSet(eval_args) /\ eval_outcome = Some("ok")) =>
        LET rs == Val(eval_args).specialist_responses
            e == EvaluatedResponseOfRun
            expected == IF Len(rs) = 2 THEN rs[1].tool_calls \o rs[2].tool_calls
                        ELSE rs[1].tool_calls
        IN  /\ Len(rs) \in {1, 2}
            /\ e.success
            /\ e.tool_calls = expected
            /\ e.metadata["total_tools_used"] = Len(expected)
            /\ e.metadata["original_specialists"] = [i \in 1..Len(rs) |-> rs[i].agent_name]
            /\ e.metadata["routing_decision"] = Val(eval_args).routing_decision
            /\ e.metadata["evaluated"] /\ e.metadata["evaluation_success"]
            /\ metadata["tools_used"] = Len(expected)
            /\ metadata["evaluated"] /\ metadata["evaluation_success"]
            /\ final_response = e.message

\* a successful evaluation of the two responses of a Both routing, four tool
\* calls in all
C33_Witness ==
    /\ IsSet(eval_args)
    /\ eval_outcome = Some("ok")
    /\ Len(Val(eval_args).specialist_responses) = 2
    /\ metadata["tools_used"] = 4
    /\ Len(EvaluatedResponseOfRun.tool_calls) = 4

\* the entries a step adds to the history of domain d
NewEvents(d) ==
    [i \in 1..(Len(rag_log'[d]) - Len(rag_log[d])) |-> rag_log'[d][Len(rag_log[d]) + i][1]]

\* C34: when _ensure_domain_initialized gets past the lock on a domain whose
\* flag is set it loads nothing and builds nothing; on a domain whose flag is
\* not set it loads the cache file when the file exists and can be loaded,
\* builds from the source files when there is no cache file, and builds from
\* the source files after a failed load
C34_EnsureLoadsOrBuilds ==
    [][\A t \in Tasks :
          (OpOf(t) = "ensure" /\ t_pc[t] \in {"idle", "acquire"}
                              /\ t_pc'[t] \in {"done", "embedding"})
            => LET d == t_arg'[t]
                   c == cache_file[d]
                   source == AllChunks(docs_dir[d])
                   build == IF source = <<>>
                            THEN /\ t_pc'[t] = "done"
                                 /\ doc_chunks'[d] = doc_chunks[d]
                            ELSE /\ t_pc'[t] = "embedding"
                                 /\ t_local'[t].cur = d
                                 /\ t_local'[t].chunks = source
               IN  IF initialized[d]
                   THEN /\ t_pc'[t] = "done"
                        /\ NewEvents(d) = <<>>
                        /\ vector_store'[d] = vector_store[d]
                        /\ doc_chunks'[d] = doc_chunks[d]
                   ELSE IF CacheLoads(c)
                   THEN /\ t_pc'[t] = "done"
                        /\ NewEvents(d) = <<"init", "load_ok">>
                        /\ vector_store'[d] = Some(Val(c).vector_store)
                        /\ doc_chunks'[d] = Val(c).document_chunks
                   ELSE IF c = None
                   THEN /\ build
                        /\ NewEvents(d) \in {<<"init", "build_empty">>, <<"init", "build_started">>}
                   ELSE /\ build
                        /\ NewEvents(d) \in {<<"init", "load_failed", "build_empty">>,
                                             <<"init", "load_failed", "build_started">>}]_vars

\* a cache file could not be loaded and the index was built from the source
\* files instead
C34_Witness ==
    \E d \in Domains, t \in Tasks :
        /\ Logged("load_failed", t, d)
        /\ Logged("build_done", t, d)
        /\ vector_store[d] = Some(IndexRows(<<"c1", "c2">>, "ok"))

\* ---- properties of the search results ----

\* C35: search_documents returns at most top_k chunks, each one a chunk of
\* the index, none of them twice, in non-increasing order of the similarity
\* score attached to them, whatever the number of chunks of the index
C35_SearchResultsRanked ==
    rt_pc = "searched" =>
        LET res == Val(rt_results).built
        IN  /\ Len(res) <= Val(rt_results).k
            /\ \A n \in 1..Len(res) :
                   \E i \in 1..Len(rt_built.chunks) : rt_built.chunks[i] = res[n].chunk
            /\ \A n, m \in 1..Len(res) : res[n].chunk = res[m].chunk => n = m
            /\ \A n \in 1..(Len(res) - 1) :
                   res[n].similarity_score >= res[n + 1].similarity_score

\* ---------------------------------------------------------------------------
\* RAGDocumentSearch.get_context_for_query (rag_search.py): the context built
\* from the chunks search_documents returned, within a token budget.
\* ---------------------------------------------------------------------------

\* the chunks of the model and len(self.tokenizer.encode(chunk_text)) of the
\* tagged text of each
ContextChunks == {"a", "b", "c"}
TaggedTokens(c) == IF c = "a" THEN 1 ELSE IF c = "b" THEN 2 ELSE 3

\* chunk_text = f"[From {chunk.source}]\n{chunk.text}\n"
Tagged(c) == <<"[From ", c, ".pdf]\n", c, " text", "\n">>

\* "\n".join(parts)
RECURSIVE JoinLines(_)
JoinLines(parts) ==
    IF parts = <<>> THEN <<>>
    ELSE IF Len(parts) = 1 THEN Head(parts)
    ELSE Head(parts) \o <<"\n">> \o JoinLines(Tail(parts))

\* a loop over relevant_chunks that goes on after a chunk that does not fit
RECURSIVE context_parts_SkipsTooLong(_, _, _)
context_parts_SkipsTooLong(relevant_chunks, current_length, max_context_length) ==
    IF relevant_chunks = <<>> THEN <<>>
    ELSE LET chunk == Head(relevant_chunks)
             chunk_length == TaggedTokens(chunk)
         IN  IF current_length + chunk_length > max_context_length
             THEN context_parts_SkipsTooLong(Tail(relevant_chunks), current_length,
                                             max_context_length)
             ELSE <<Tagged(chunk)>> \o
                  context_parts_SkipsTooLong(Tail(relevant_chunks),
                      current_length + chunk_length, max_context_length)

\* the loop of get_context_for_query: the parts collected from relevant_chunks
\* on, current_length tokens being used already
RECURSIVE context_parts(_, _, _)
context_parts(relevant_chunks, current_length, max_context_length) ==
    IF relevant_chunks = <<>> THEN <<>>
    ELSE LET chunk == Head(relevant_chunks)
             chunk_length == TaggedTokens(chunk)
         IN  IF current_length + chunk_length > max_context_length
             THEN <<>>
             ELSE <<Tagged(chunk)>> \o
                  context_parts(Tail(relevant_chunks), current_length + chunk_length,
                                max_context_length)

\* get_context_for_query with a loop that goes on after a chunk that does not fit
get_context_SkipsTooLong(relevant_chunks, max_context_length) ==
    IF relevant_chunks = <<>> THEN <<>>
    ELSE JoinLines(context_parts_SkipsTooLong(relevant_chunks, 0, max_context_length))

\* get_context_for_query after the search
get_context(relevant_chunks, max_context_length) ==
    IF relevant_chunks = <<>> THEN <<>>
    ELSE JoinLines(context_parts(relevant_chunks, 0, max_context_length))

\* the top_k get_context_for_query passes to search_documents
ContextTopK == 10

\* the largest budget and the longest list search_documents returns here
MaxBudget == 4
MaxCandidates == 3
CandidateLists == UNION {[1..n -> ContextChunks] : n \in 0..MaxCandidates}

InitContext ==
    /\ WorkflowInit
    /\ AgentIdle
    /\ RoutingIdle
    /\ ValidationIdle
    /\ SanitizeIdle
    /\ RagIdle
    /\ RoundTripIdle
    /\ EmbedIdle
    /\ ctx_pc = "call"
    /\ ctx_budget \in 0..MaxBudget
    /\ ctx_top_k = None
    /\ ctx_candidates = <<>>
    /\ ctx_context = None

ContextUnchanged ==
    UNCHANGED <<pc, both_pc, raw_query, query, validation_result, supervisor_response,
                specialist_response, individual_responses, final_response, error,
                metadata, it_response, result, visited, calls, raised, eval_args,
                eval_outcome, agent_vars, routing_vars, validation_vars, sanitize_vars,
                rag_vars, roundtrip_vars, embed_vars>>

\* relevant_chunks = await self.search_documents(query, domain, top_k=10)
context_search(found) ==
    /\ ctx_pc = "call"
    /\ ctx_top_k' = Some(ContextTopK)
    /\ ctx_candidates' = found
    /\ ctx_pc' = "searched"
    /\ UNCHANGED <<ctx_budget, ctx_context>>
    /\ ContextUnchanged

\* the rest of get_context_for_query
context_return ==
    /\ ctx_pc = "searched"
    /\ ctx_context' = Some(get_context(ctx_candidates, ctx_budget))
    /\ ctx_pc' = "done"
    /\ UNCHANGED <<ctx_budget, ctx_top_k, ctx_candidates>>
    /\ ContextUnchanged

NextContext ==
    \/ \E found \in CandidateLists : context_search(found)
    \/ context_return

SpecContext == InitContext /\ [][NextContext]_vars

\* the tokens of the first n candidates
RECURSIVE TokensOfFirst(_, _)
TokensOfFirst(cands, n) ==
    IF n = 0 THEN 0 ELSE TokensOfFirst(cands, n - 1) + TaggedTokens(cands[n])

\* C36: the context is made of the tagged texts of the longest prefix of the
\* candidate list (asked with top_k = 10) whose tokens together stay within
\* the budget, in the order of the list: the first candidate that does not
\* fit ends it, and the tokens of the included candidates never exceed the
\* budget
C36_ContextIsLongestPrefixInBudget ==
    ctx_pc = "done" =>
        LET fits == {n \in 0..Len(ctx_candidates) :
                        TokensOfFirst(ctx_candidates, n) <= ctx_budget}
            longest == CHOOSE n \in fits : \A m \in fits : m <= n
        IN  /\ ctx_top_k = Some(ContextTopK)
            /\ Val(ctx_context) =
                   JoinLines([i \in 1..longest |-> Tagged(ctx_candidates[i])])
            /\ TokensOfFirst(ctx_candidates, longest) <= ctx_budget

\* the second candidate does not fit, the third one alone would, and the
\* context holds the first candidate only
C36_Witness ==
    /\ ctx_pc = "done"
    /\ ctx_candidates = <<"b", "c", "a">>
    /\ ctx_budget = 3
    /\ Val(ctx_context) = Tagged("b")

\* ---------------------------------------------------------------------------
\* _generate_embeddings and _get_batch_embeddings followed text by text, and
\* the build or search that uses the embeddings returned
\* ---------------------------------------------------------------------------

\* the number of texts of one batch (10 in the source)
batch_size == 2

\* the longest list of chunk texts embedded for a build
MaxEmbedTexts == 3

\* the texts of a build (two chunks may have the same text) and of a search
EmbedTextLists(purpose) ==
    IF purpose = "build"
    THEN UNION {[1..n -> {"c1", "c2"}] : n \in 1..MaxEmbedTexts}
    ELSE {<<q>> : q \in QueryTexts}

\* texts[i:i + batch_size], with i the position of the first text of the batch
BatchEnd(texts, i) == IF i + batch_size - 1 < Len(texts) THEN i + batch_size - 1 ELSE Len(texts)

\* a fallback that returns nothing for the batch
get_batch_fallback_DropsBatch(texts) == <<>>

\* [[0.0] * 1536 for _ in texts]: the dummy embeddings of a batch
get_batch_fallback(texts) == [n \in 1..Len(texts) |-> ZeroVector]

InitEmbed ==
    /\ WorkflowInit
    /\ AgentIdle
    /\ RoutingIdle
    /\ ValidationIdle
    /\ SanitizeIdle
    /\ RagIdle
    /\ RoundTripIdle
    /\ ContextIdle
    /\ emb_pc = "loop"
    /\ emb_client \in BOOLEAN
    /\ emb_purpose \in {"build", "search"}
    /\ emb_texts \in EmbedTextLists(emb_purpose)
    /\ emb_i = 1
    /\ emb_batch = <<>>
    /\ emb_failed = {}
    /\ emb_embeddings = <<>>
    /\ emb_outcome = None

EmbedUnchanged ==
    UNCHANGED <<pc, both_pc, raw_query, query, validation_result, supervisor_response,
                specialist_response, individual_responses, final_response, error,
                metadata, it_response, result, visited, calls, raised, eval_args,
                eval_outcome, agent_vars, routing_vars, validation_vars, sanitize_vars,
                rag_vars, roundtrip_vars, context_vars>>

\* _get_batch_embeddings returns batch_embeddings for the batch that starts at
\* emb_i, and _generate_embeddings extends embeddings with them
batch_returns(batch_embeddings) ==
    /\ emb_embeddings' = emb_embeddings \o batch_embeddings
    /\ emb_i' = emb_i + batch_size
    /\ emb_batch' = <<>>
    /\ emb_pc' = "loop"

\* one turn of the loop of _generate_embeddings up to the first request of
\* _get_batch_embeddings: without a Bedrock client the batch gets dummy embeddings
generate_next_batch ==
    /\ emb_pc = "loop"
    /\ emb_i <= Len(emb_texts)
    /\ LET batch == SubSeq(emb_texts, emb_i, BatchEnd(emb_texts, emb_i))
       IN  IF ~emb_client
           THEN /\ batch_returns(get_batch_fallback(batch))
                /\ emb_failed' = emb_failed \cup (emb_i..BatchEnd(emb_texts, emb_i))
           ELSE /\ emb_pc' = "batch"
                /\ emb_batch' = <<>>
                /\ UNCHANGED <<emb_i, emb_embeddings, emb_failed>>
    /\ UNCHANGED <<emb_client, emb_purpose, emb_texts, emb_outcome>>
    /\ EmbedUnchanged

\* one turn of the loop of _get_batch_embeddings: the request for one text
\* succeeds or raises; an exception replaces the embeddings of the whole batch
\* by dummy ones
embed_text(backend) ==
    /\ emb_pc = "batch"
    /\ LET last == BatchEnd(emb_texts, emb_i)
           batch == SubSeq(emb_texts, emb_i, last)
           pos == emb_i + Len(emb_batch)
       IN  IF backend = "ok"
           THEN LET embeddings == Append(emb_batch, Titan(emb_texts[pos]))
                IN  /\ IF pos = last
                       THEN batch_returns(embeddings)
                       ELSE /\ emb_batch' = embeddings
                            /\ UNCHANGED <<emb_pc, emb_i, emb_embeddings>>
                    /\ UNCHANGED emb_failed
           ELSE /\ batch_returns(get_batch_fallback(batch))
                /\ emb_failed' = emb_failed \cup (emb_i..last)
    /\ UNCHANGED <<emb_client, emb_purpose, emb_texts, emb_outcome>>
    /\ EmbedUnchanged

\* _generate_embeddings returns after the last batch
generate_return ==
    /\ emb_pc = "loop"
    /\ emb_i > Len(emb_texts)
    /\ emb_pc' = "returned"
    /\ UNCHANGED <<emb_client, emb_purpose, emb_texts, emb_i, emb_batch, emb_failed,
                   emb_embeddings, emb_outcome>>
    /\ EmbedUnchanged

\* np.array(embeddings).astype('float32') works on rows of one length
SameLength(embeddings) ==
    \A i, j \in 1..Len(embeddings) : Len(embeddings[i]) = Len(embeddings[j])

\* _build_vector_store_from_chunks with the embeddings returned: embeddings[0]
\* of an empty list and rows of different lengths raise, and the except of
\* the caller ends the build
emb_build ==
    /\ emb_pc = "returned"
    /\ emb_purpose = "build"
    /\ emb_outcome' =
          IF emb_embeddings = <<>> \/ ~SameLength(emb_embeddings)
          THEN Some([status |-> "aborted", rows |-> <<>>])
          ELSE Some([status |-> "built",
                     rows |-> [i \in 1..Len(emb_embeddings) |->
                                  normalize_L2(emb_embeddings[i])]])
    /\ emb_pc' = "used"
    /\ UNCHANGED <<emb_client, emb_purpose, emb_texts, emb_i, emb_batch, emb_failed,
                   emb_embeddings>>
    /\ EmbedUnchanged

\* search_documents with the embeddings returned, on an index of dimension
\* EmbeddingDim: no embedding returns [] early, and a query vector of another
\* dimension makes the index raise, which the except turns into []
emb_search ==
    /\ emb_pc = "returned"
    /\ emb_purpose = "search"
    /\ emb_outcome' =
          IF emb_embeddings = <<>>
          THEN Some([status |-> "empty", rows |-> <<>>])
          ELSE IF Len(emb_embeddings[1]) # EmbeddingDim
               THEN Some([status |-> "aborted", rows |-> <<>>])
               ELSE Some([status |-> "searched",
                          rows |-> <<normalize_L2(emb_embeddings[1])>>])
    /\ emb_pc' = "used"
    /\ UNCHANGED <<emb_client, emb_purpose, emb_texts, emb_i, emb_batch, emb_failed,
                   emb_embeddings>>
    /\ EmbedUnchanged

NextEmbed ==
    \/ generate_next_batch
    \/ \E b \in BackendOutcomes : embed_text(b)
    \/ generate_return
    \/ emb_build
    \/ emb_search

SpecEmbed == InitEmbed /\ [][NextEmbed]_vars

\* C37: whatever requests of the embedding backend fail, _generate_embeddings
\* returns one vector per input text in input order, the zero vector for every
\* text of a batch that failed and the backend's vector for the others, and
\* the build or search that uses them completes
C37_EmbeddingsSurviveBackendFailures ==
    /\ emb_pc = "loop" /\ emb_i <= Len(emb_texts) => Len(emb_embeddings) = emb_i - 1
    /\ emb_pc \in {"returned", "used"} =>
          /\ Len(emb_embeddings) = Len(emb_texts)
          /\ \A i \in 1..Len(emb_texts) :
                emb_embeddings[i] = IF i \in emb_failed THEN ZeroVector
                                    ELSE Titan(emb_texts[i])
    /\ emb_pc = "used" =>
          /\ IsSet(emb_outcome)
          /\ Val(emb_outcome).status = IF emb_purpose = "build" THEN "built" ELSE "searched"
          /\ Len(Val(emb_outcome).rows) = Len(emb_texts)

\* a build of three chunks whose first batch failed at its second request and
\* whose second batch succeeded
C37_Witness ==
    /\ emb_pc = "used"
    /\ emb_purpose = "build"
    /\ emb_client
    /\ Len(emb_texts) = 3
    /\ emb_failed = {1, 2}
    /\ emb_embeddings = <<ZeroVector, ZeroVector, Titan(emb_texts[3])>>
    /\ Val(emb_outcome).status = "built"

\* C38: a failure of the evaluator's LLM call (validation, routing and the
\* specialist stage having succeeded) never sets the workflow error:
\* process_query returns success=true with error unset, and the metadata
\* flags evaluated and evaluation_success are both false.
C38_EvaluatorFailureIsNotAnError ==
    (EvaluationFellBack /\ pc = "returned") =>
        /\ error = None
        /\ raised = <<>>
        /\ Val(result).success = TRUE
        /\ Val(result).error = None
        /\ Val(result).metadata.evaluated = FALSE
        /\ Val(result).metadata.evaluation_success = FALSE

\* C38 witness: a one-specialist run whose evaluator call failed with an
\* LLMError has returned to the caller
C38_Witness ==
    /\ EvaluationFellBack
    /\ pc = "returned"
    /\ eval_outcome = Some("llm_error")
    /\ ~BothReturned
    /\ Val(validation_result).is_valid
    /\ Val(supervisor_response).success
    /\ Val(specialist_response).success
    /\ Val(result).success

\* C39: whenever validate_query returns is_valid=true, the sanitized_input it
\* returns has a length between min_query_length and max_query_length, and
\* validating it again yields is_valid=true
C39_SanitizedInputIsValidAgain ==
    (v_pc = "done" /\ Val(v_result).is_valid) =>
        LET sanitized == Val(Val(v_result).sanitized_input)
        IN  /\ Len(sanitized) >= min_query_length
            /\ Len(sanitized) <= max_query_length
            /\ validate_query(sanitized).is_valid

\* the attempt of _ensure_domain_initialized on domain d ended in a build that
\* found nothing, and refresh_vector_store has not touched the domain
EnsureLeftEmpty(d) ==
    /\ \E t \in Tasks : OpOf(t) = "ensure" /\ Logged("build_empty", t, d)
    /\ \A i \in 1..Len(rag_log[d]) : OpOf(rag_log[d][i][2]) # "refresh"

====
